---- MODULE Spec2Model ----
(***************************************************************************)
(* Forwarding decision and delivery pipeline of the Telegram message       *)
(* forwarder (src/src/forwarder/*.py).                                     *)
(*                                                                         *)
(* Text values that the code inspects character by character (chat ids,    *)
(* rule keys, topic keys) are sequences of one-character strings, so that  *)
(* str(), startswith, slicing and lstrip are computed, not assumed.        *)
(* Opaque text (target chat ids, program locations) are plain strings.     *)
(***************************************************************************)
EXTENDS Integers, Sequences, FiniteSets, TLC

(***************************************************************************)
(* Python values                                                           *)
(***************************************************************************)

\* Python's None for the integer-typed optionals (topic ids, sender ids,
\* message ids are positive integers in Telegram).
None == 0 - 1

\* Truth value of an optional integer: None and 0 are falsy.
Truthy(v) == v # None /\ v # 0

Digit == <<"0", "1", "2", "3", "4", "5", "6", "7", "8", "9">>

RECURSIVE NatStr(_)
NatStr(n) ==
    IF n < 10 THEN <<Digit[n + 1]>>
    ELSE NatStr(n \div 10) \o <<Digit[(n % 10) + 1]>>

\* str(n) of an int
IntStr(n) == IF n < 0 THEN <<"-">> \o NatStr(0 - n) ELSE NatStr(n)

\* A chat id is Union[int, str]: [int |-> n] or [str |-> s]
IntId(n) == [int |-> n]
StrId(s) == [str |-> s]

\* str(chat_id)
PyStr(c) == IF "int" \in DOMAIN c THEN IntStr(c.int) ELSE c.str

\* s.startswith(p)
StartsWith(s, p) == Len(s) >= Len(p) /\ SubSeq(s, 1, Len(p)) = p

\* s[n:]
DropFirst(s, n) == IF Len(s) <= n THEN <<>> ELSE SubSeq(s, n + 1, Len(s))

\* s.lstrip('-')
RECURSIVE LStripMinus(_)
LStripMinus(s) ==
    IF s # <<>> /\ Head(s) = "-" THEN LStripMinus(Tail(s)) ELSE s

Prefix100 == <<"-", "1", "0", "0">>

(***************************************************************************)
(* utils.normalize_chat_id                                                 *)
(***************************************************************************)

\* variant: the prefix-less branch forgets to strip the leading minus
normalize_chat_id_nostrip(chat_id) ==
    LET str_chat_id == PyStr(chat_id) IN
    IF StartsWith(str_chat_id, Prefix100)
    THEN << str_chat_id,
            DropFirst(str_chat_id, 4),
            <<"-">> \o DropFirst(str_chat_id, 4) >>
    ELSE << str_chat_id, Prefix100 \o str_chat_id >>

\* variant: an identifier without the prefix is replaced by its "-100" form
normalize_chat_id_canonical_only(chat_id) ==
    LET str_chat_id == PyStr(chat_id) IN
    IF StartsWith(str_chat_id, Prefix100)
    THEN << str_chat_id,
            DropFirst(str_chat_id, 4),
            <<"-">> \o DropFirst(str_chat_id, 4) >>
    ELSE << Prefix100 \o LStripMinus(str_chat_id) >>

\* variant: the prefix-less branch strips one leading minus only
normalize_chat_id_strip_one(chat_id) ==
    LET str_chat_id == PyStr(chat_id) IN
    IF StartsWith(str_chat_id, Prefix100)
    THEN << str_chat_id,
            DropFirst(str_chat_id, 4),
            <<"-">> \o DropFirst(str_chat_id, 4) >>
    ELSE << str_chat_id,
            Prefix100 \o (IF str_chat_id # <<>> /\ Head(str_chat_id) = "-"
                          THEN Tail(str_chat_id) ELSE str_chat_id) >>

normalize_chat_id(chat_id) ==
    LET str_chat_id == PyStr(chat_id) IN
    IF StartsWith(str_chat_id, Prefix100)
    THEN << str_chat_id,
            DropFirst(str_chat_id, 4),
            <<"-">> \o DropFirst(str_chat_id, 4) >>
    ELSE << str_chat_id, Prefix100 \o LStripMinus(str_chat_id) >>

(***************************************************************************)
(* rules.RuleManager.should_forward                                        *)
(*                                                                         *)
(* A rule table is a function from keys (texts) to entries; an entry is a  *)
(* function from scope keys ("*" or the text of a topic id) to a sequence  *)
(* of targets; a target is a record with chat_id and, optionally,          *)
(* topic_id and user_ids (a JSON object may leave them out).               *)
(***************************************************************************)

Star == <<"*">>

\* dict.get(key, default) of a target
Get(target, key, default) ==
    IF key \in DOMAIN target THEN target[key] ELSE default

\* x in list
InList(x, list) == \E j \in 1..Len(list) : list[j] = x

\* the loop over potential_ids with its break: <<>> is matching_rules = None
RECURSIVE MatchFrom(_, _, _)
MatchFrom(table, potential_ids, i) ==
    IF i > Len(potential_ids) THEN <<>>
    ELSE IF potential_ids[i] \in DOMAIN table
         THEN <<table[potential_ids[i]]>>
         ELSE MatchFrom(table, potential_ids, i + 1)

\* variant: the loop without its break keeps the last candidate present
RECURSIVE MatchLastFrom(_, _, _)
MatchLastFrom(table, potential_ids, i) ==
    IF i < 1 THEN <<>>
    ELSE IF potential_ids[i] \in DOMAIN table
         THEN <<table[potential_ids[i]]>>
         ELSE MatchLastFrom(table, potential_ids, i - 1)

FindMatchingLast(table, potential_ids) ==
    MatchLastFrom(table, potential_ids, Len(potential_ids))

\* variant: a chat without an entry of its own gets the entry of another key
FindMatchingAnyKey(table, potential_ids) ==
    IF MatchFrom(table, potential_ids, 1) = <<>> /\ DOMAIN table # {}
    THEN <<table[CHOOSE k \in DOMAIN table : TRUE]>>
    ELSE MatchFrom(table, potential_ids, 1)

FindMatching(table, potential_ids) == MatchFrom(table, potential_ids, 1)

\* the user filter of one target: TRUE when the target is skipped (continue)
UserFilteredClosed(target, user_id) ==
    LET user_ids == Get(target, "user_ids", <<>>) IN
    user_ids # <<>> /\ ~InList(user_id, user_ids)

UserFiltered(target, user_id) ==
    LET user_ids == Get(target, "user_ids", <<>>) IN
    user_ids # <<>> /\ user_id # None /\ ~InList(user_id, user_ids)

\* the dict appended to result for one target
Resolved(target) ==
    [to_chat |-> target["chat_id"],
     to_topic |-> Get(target, "topic_id", None),
     include_source |-> TRUE]

\* one for-loop over a target list, appending to result
RECURSIVE AppendTargets(_, _, _, _)
AppendTargets(result, targets, user_id, j) ==
    IF j > Len(targets) THEN result
    ELSE IF UserFiltered(targets[j], user_id)
         THEN AppendTargets(result, targets, user_id, j + 1)
         ELSE AppendTargets(Append(result, Resolved(targets[j])),
                            targets, user_id, j + 1)

\* variant: a topic-specific rule list overrides the chat-level list
ScopedTargetsOverride(matching_rules, topic_id, user_id) ==
    LET str_topic_id == IntStr(topic_id) IN
    IF topic_id # None /\ str_topic_id \in DOMAIN matching_rules
    THEN AppendTargets(<<>>, matching_rules[str_topic_id], user_id, 1)
    ELSE IF Star \in DOMAIN matching_rules
         THEN AppendTargets(<<>>, matching_rules[Star], user_id, 1)
         ELSE <<>>

\* the body of should_forward after the match: "*" targets, then topic targets
ScopedTargets(matching_rules, topic_id, user_id) ==
    LET wild == IF Star \in DOMAIN matching_rules
                THEN AppendTargets(<<>>, matching_rules[Star], user_id, 1)
                ELSE <<>>
    IN  IF topic_id # None
        THEN LET str_topic_id == IntStr(topic_id) IN
             IF str_topic_id \in DOMAIN matching_rules
             THEN AppendTargets(wild, matching_rules[str_topic_id], user_id, 1)
             ELSE wild
        ELSE wild

should_forward(table, chat_id, topic_id, user_id) ==
    LET potential_ids == normalize_chat_id(chat_id)
        matching == FindMatching(table, potential_ids)
    IN  IF matching = <<>> THEN <<>>
        ELSE ScopedTargets(matching[1], topic_id, user_id)

(***************************************************************************)
(* Transport results.  A call to the transport either raises or returns;   *)
(* Fail is the raised exception, NoneResult a returned None.               *)
(***************************************************************************)

Fail == [fail |-> TRUE]
NoneResult == [none |-> TRUE]

IsFail(o) == "fail" \in DOMAIN o
IsNone(o) == "none" \in DOMAIN o

\* getattr(obj, name, default)
GetAttr(obj, name, default) ==
    IF name \in DOMAIN obj THEN obj[name] ELSE default

\* getattr whose value is used as a truth value: an attribute set to None
\* (a flag the transport left out) is falsy
Flag(obj, name) ==
    /\ name \in DOMAIN obj
    /\ obj[name] = TRUE

(***************************************************************************)
(* processors.MessageProcessor.extract_topic_id                            *)
(*                                                                         *)
(* A message is a record; hasattr(message, a) is a \in DOMAIN message.     *)
(* message.reply_to is NoReply (None) or a record of the reply header.     *)
(***************************************************************************)

NoReply == [absent |-> TRUE]

HasReply(message) == "absent" \notin DOMAIN message.reply_to

\* variant: the reply target's message id is preferred to the top-level ids
TopicFromReplyTargetFirst(reply_to, is_forum) ==
    IF "reply_to_msg_id" \in DOMAIN reply_to /\ reply_to.reply_to_msg_id # None
    THEN reply_to.reply_to_msg_id
    ELSE IF "reply_to_top_id" \in DOMAIN reply_to
         THEN reply_to.reply_to_top_id
         ELSE IF "top_msg_id" \in DOMAIN reply_to THEN reply_to.top_msg_id
              ELSE None

\* the branch taken when message.reply_to is set (lines 146-176)
TopicFromReply(reply_to, is_forum) ==
    LET flagged ==
            IF "forum_topic" \in DOMAIN reply_to /\ reply_to.forum_topic
            THEN IF "top_msg_id" \in DOMAIN reply_to
                 THEN reply_to.top_msg_id
                 ELSE IF "reply_to_top_id" \in DOMAIN reply_to
                      THEN reply_to.reply_to_top_id
                      ELSE None
            ELSE IF "reply_to_top_id" \in DOMAIN reply_to
                 THEN reply_to.reply_to_top_id
                 ELSE IF "top_msg_id" \in DOMAIN reply_to
                      THEN reply_to.top_msg_id
                      ELSE None
    IN  IF flagged = None /\ "reply_to_msg_id" \in DOMAIN reply_to
        THEN IF is_forum THEN reply_to.reply_to_msg_id ELSE None
        ELSE flagged

\* variant: a message without topic field and reply metadata gets no topic
TopicOfForumMessageNoDefault(message, is_forum) ==
    IF "topic_id" \in DOMAIN message THEN message.topic_id
    ELSE IF "topic" \in DOMAIN message THEN message.topic
    ELSE IF HasReply(message)
         THEN TopicFromReply(message.reply_to, is_forum)
    ELSE IF is_forum /\ message.post THEN message.id
    ELSE None

\* the if/elif chain once the chat is known to be a forum (lines 138-185)
TopicOfForumMessage(message, is_forum) ==
    IF "topic_id" \in DOMAIN message THEN message.topic_id
    ELSE IF "topic" \in DOMAIN message THEN message.topic
    ELSE IF HasReply(message)
         THEN TopicFromReply(message.reply_to, is_forum)
    ELSE IF is_forum /\ message.post THEN message.id
    ELSE 1

\* variant: the forum flag of the chat is not looked at
extract_topic_id_any_chat(message, entity) ==
    IF IsFail(entity) THEN None
    ELSE TopicOfForumMessage(message, TRUE)

\* variant: a raised lookup gives the default topic
extract_topic_id_default_on_failure(message, entity) ==
    IF IsFail(entity) THEN 1
    ELSE LET is_forum == Flag(entity, "forum") IN
         IF ~is_forum THEN None
         ELSE TopicOfForumMessage(message, is_forum)

\* the value extract_topic_id returns, given the result of
\* client.get_entity(chat_id): a raised lookup leaves topic_id = None
extract_topic_id(message, entity) ==
    IF IsFail(entity) THEN None
    ELSE LET is_forum == Flag(entity, "forum") IN
         IF ~is_forum THEN None
         ELSE TopicOfForumMessage(message, is_forum)

(***************************************************************************)
(* processors.MessageProcessor.is_genuine_reply                            *)
(***************************************************************************)

\* variant: every message with a reply target is a genuine reply
is_genuine_reply_any_target(message, topic_id) ==
    HasReply(message) /\ "reply_to_msg_id" \in DOMAIN message.reply_to

is_genuine_reply(message, topic_id) ==
    IF ~HasReply(message) \/ "reply_to_msg_id" \notin DOMAIN message.reply_to
    THEN FALSE
    ELSE IF /\ "forum_topic" \in DOMAIN message.reply_to
            /\ message.reply_to.forum_topic
            /\ Truthy(topic_id)
         THEN message.reply_to.reply_to_msg_id # topic_id
         ELSE TRUE

(***************************************************************************)
(* entities.EntityManager.can_forward_from_chat: the test on the entity    *)
(***************************************************************************)

\* variant: the noforwards flag is honoured whatever the entity's type
EntityForbidsForwardAnyType(entity) == Flag(entity, "noforwards")

\* isinstance(entity, Channel) and getattr(entity, 'noforwards', False)
EntityForbidsForward(entity) ==
    Flag(entity, "channel") /\ Flag(entity, "noforwards")

(***************************************************************************)
(* State                                                                   *)
(***************************************************************************)

VARIABLES
    rules,                  \* RuleManager.rules
    call,                   \* one call of should_forward: arguments and result
    chat_entities,          \* EntityManager.chat_entities
    chat_topics,            \* EntityManager.chat_topics
    no_forward_chats,       \* EntityManager.no_forward_chats
    resolved_message_links, \* LinkManager.resolved_message_links
    handler,                \* the running new_message_handler coroutines:
                            \* their local variables and the call each awaits
    restricted              \* history: the chats from which a native forward
                            \* has failed with a forwarding-restriction error

\* the caches of a freshly constructed EntityManager and LinkManager
EmptyDict == <<>>

\* a message that is not there
NoMessage == [absent |-> TRUE]

\* the local variables of a handler slot in which no event is being handled
Idle ==
    [pc |-> "idle",
     chat_id |-> IntId(0),
     message |-> NoMessage,
     sender_id |-> None,
     topic_id |-> None,
     forwarding_info |-> <<>>,
     can_forward |-> FALSE,
     additional_content |-> <<>>,
     target |-> 0,
     media_item |-> 0,
     link |-> 0,
     linked |-> NoMessage,
     \* the topic name of source_info; empty if get_topic_name was not called
     topic_name |-> <<>>,
     \* history: the main send to the previous target raised
     last_failed |-> FALSE,
     \* history: the follow-up edit of the previous target raised
     edit_failed |-> FALSE,
     \* history: the last event handled in this slot matched no rule
     no_rule |-> FALSE,
     \* history: the event arrived after a forwarding-restriction error of
     \* its chat
     after_restriction |-> FALSE,
     \* history: the chat of the event handled in this slot if a native
     \* forward of it raised an error that is no restriction error
     failed_chat |-> IntId(0),
     \* history: the event is the next of this slot after such an error of
     \* its chat
     after_failure |-> FALSE]

\* bound: number of events whose handling may be in flight together
MaxInFlight == 2

Handlers == 1..MaxInFlight

(***************************************************************************)
(* Rule tables and inputs of the rule-matching specification               *)
(***************************************************************************)

\* bound: number of source-chat keys in a rule table
MaxKeys == 2

T999 == [chat_id |-> "999"]
T888 == [chat_id |-> "888", topic_id |-> 3, user_ids |-> <<42>>]

Entries ==
    LET T777 == [chat_id |-> "777", topic_id |-> None, user_ids |-> <<>>]
        EntryA == (Star :> <<T999>>)
        EntryB == (Star :> <<T888, T999>>) @@ (IntStr(1) :> <<T999, T777>>)
        EntryC == (Star :> <<T888>>) @@ (IntStr(2) :> <<T888>>)
        EntryD == (IntStr(1) :> <<T777>>)
    IN  {EntryA, EntryB, EntryC, EntryD}

\* the four string forms of chat 1234, and the canonical and bare form of
\* chat 1001234, whose single-minus form is the text "-1001234" as well
RuleKeys ==
    {IntStr(0 - 1001234), IntStr(1234), IntStr(0 - 1234),
     IntStr(0 - 1001001234), IntStr(1001234)}

(***************************************************************************)
(* Specification of rule matching: any table, any inbound message key      *)
(***************************************************************************)

caches == <<chat_entities, chat_topics, no_forward_chats,
            resolved_message_links>>

vars == <<rules, call, caches, handler, restricted>>

InitCaches ==
    /\ chat_entities = EmptyDict
    /\ chat_topics = EmptyDict
    /\ no_forward_chats = {}
    /\ resolved_message_links = EmptyDict

InitRules ==
    LET RuleTables ==
            UNION {[ks -> Entries] :
                     ks \in {s \in SUBSET RuleKeys : Cardinality(s) <= MaxKeys}}
        InboundChatIds ==
            {StrId(k) : k \in RuleKeys \cup {IntStr(77), <<"-">> \o IntStr(0 - 1234)}}
              \cup {IntId(0 - 1001234), IntId(1234)}
    IN
    /\ rules \in RuleTables
    /\ call \in [chat_id : InboundChatIds, topic_id : {None, 1, 2},
                 user_id : {None, 42, 7}, done : {FALSE}, result : {<<>>}]
    /\ InitCaches
    /\ handler = [e \in Handlers |-> Idle]
    /\ restricted = {}

CallShouldForward ==
    /\ ~call.done
    /\ call' = [call EXCEPT
                  !.done = TRUE,
                  !.result = should_forward(rules, call.chat_id,
                                            call.topic_id, call.user_id)]
    /\ UNCHANGED <<rules, caches, handler, restricted>>

SpecRules == InitRules /\ [][CallShouldForward]_vars

(***************************************************************************)
(* Claims about rule matching                                              *)
(***************************************************************************)

Min(S) == CHOOSE x \in S : \A y \in S : x <= y

Range(seq) == {seq[i] : i \in 1..Len(seq)}

\* indices of the candidate keys of the call that are keys of the table
PresentCandidates ==
    LET cands == normalize_chat_id(call.chat_id) IN
    {i \in 1..Len(cands) : cands[i] \in DOMAIN rules}

Candidate(i) == normalize_chat_id(call.chat_id)[i]

\* the entry stored under the first candidate key present in the table
FirstEntry == rules[Candidate(Min(PresentCandidates))]

\* the sender passes the user filter of a target
PassesFilter(t, u) ==
    ~ (/\ "user_ids" \in DOMAIN t
       /\ Len(t.user_ids) > 0
       /\ u # None
       /\ \A j \in 1..Len(t.user_ids) : t.user_ids[j] # u)

AsDecision(t) ==
    [to_chat |-> t.chat_id,
     to_topic |-> IF "topic_id" \in DOMAIN t THEN t.topic_id ELSE None,
     include_source |-> TRUE]

\* the targets of one scope of an entry that pass the filter, in table order
Passing(entry, scope, u) ==
    IF scope \in DOMAIN entry
    THEN LET Pass(t) == PassesFilter(t, u)
             kept == SelectSeq(entry[scope], Pass)
         IN  [i \in 1..Len(kept) |-> AsDecision(kept[i])]
    ELSE <<>>

CountPassing(entry, scope, u) ==
    IF scope \in DOMAIN entry
    THEN Cardinality({j \in 1..Len(entry[scope]) :
                        PassesFilter(entry[scope][j], u)})
    ELSE 0

\* the decision the claims ascribe to a matched entry
EntryDecision(entry, topic, u) ==
    Passing(entry, Star, u)
      \o (IF topic # None THEN Passing(entry, IntStr(topic), u) ELSE <<>>)

\* C1: the targets of a decision all come from the entry stored under the
\* first candidate key (in normalize_chat_id order) present in the table;
\* entries under later candidate keys contribute nothing, also when the
\* first matched entry yields no target.
C1_FirstMatchOnly ==
    (call.done /\ PresentCandidates # {}) =>
        \A i \in 1..Len(call.result) :
            \E scope \in DOMAIN FirstEntry :
                \E j \in 1..Len(FirstEntry[scope]) :
                    call.result[i] = AsDecision(FirstEntry[scope][j])

\* two candidate keys are present, the first entry yields nothing for this
\* message and the later entry would have yielded a target
C1_Witness ==
    /\ call.done
    /\ Cardinality(PresentCandidates) >= 2
    /\ call.result = <<>>
    /\ \E i \in PresentCandidates :
          EntryDecision(rules[Candidate(i)], call.topic_id, call.user_id) # <<>>

\* C2: within the matched entry the decision is the "*" targets passing the
\* user filter, in table order, followed by the passing targets keyed by the
\* text of the topic id (only when a topic id is given); its length is the
\* sum of the two counts: no override, no deduplication.
C2_WildcardThenTopic ==
    (call.done /\ PresentCandidates # {}) =>
        /\ call.result
             = Passing(FirstEntry, Star, call.user_id)
                 \o (IF call.topic_id # None
                     THEN Passing(FirstEntry, IntStr(call.topic_id), call.user_id)
                     ELSE <<>>)
        /\ Len(call.result)
             = CountPassing(FirstEntry, Star, call.user_id)
                 + (IF call.topic_id # None
                    THEN CountPassing(FirstEntry, IntStr(call.topic_id),
                                      call.user_id)
                    ELSE 0)

\* both scopes contribute and the same target is delivered twice
C2_Witness ==
    /\ call.done
    /\ PresentCandidates # {}
    /\ call.topic_id # None
    /\ CountPassing(FirstEntry, Star, call.user_id) > 0
    /\ CountPassing(FirstEntry, IntStr(call.topic_id), call.user_id) > 0
    /\ \E i, j \in 1..Len(call.result) : i < j /\ call.result[i] = call.result[j]

\* the targets of the matched entry that are evaluated for this message
EvaluatedTargets ==
    LET scopes == {Star} \cup (IF call.topic_id # None
                               THEN {IntStr(call.topic_id)} ELSE {})
    IN  UNION {Range(FirstEntry[s]) : s \in scopes \cap DOMAIN FirstEntry}

\* C3: a target of the matched entry is left out of the decision iff its
\* user_ids list is non-empty, the sender is known and the sender is not in
\* the list.
C3_UserFilter ==
    (call.done /\ PresentCandidates # {}) =>
        \A t \in EvaluatedTargets :
            (AsDecision(t) \notin Range(call.result))
              <=> (/\ "user_ids" \in DOMAIN t
                   /\ t.user_ids # <<>>
                   /\ call.user_id # None
                   /\ call.user_id \notin Range(t.user_ids))

\* sender 7 is filtered out by user_ids = [42] while an unfiltered target of
\* the same entry is kept
C3_Witness ==
    /\ call.done
    /\ PresentCandidates # {}
    /\ call.user_id = 7
    /\ T888 \in EvaluatedTargets
    /\ AsDecision(T888) \notin Range(call.result)
    /\ AsDecision(T999) \in Range(call.result)

\* the scenario of C3 for an unknown sender and for the listed sender
C3_FailOpenWitness ==
    /\ call.done
    /\ PresentCandidates # {}
    /\ call.user_id = None
    /\ T888 \in EvaluatedTargets
    /\ AsDecision(T888) \in Range(call.result)

\* the string forms of a chat number n
Canonical(n) == Prefix100 \o NatStr(n)
Bare(n) == NatStr(n)
SingleMinus(n) == <<"-">> \o NatStr(n)

ChatNumbers == {1234, 1001234}

\* the decision is the one of the entry stored under key
MatchedBy(key) ==
    call.result = EntryDecision(rules[key], call.topic_id, call.user_id)

\* the scenario of the specification: rules {"-1001234": {"*": [{"chat_id":
\* "999"}]}}, message from chat "1234"
ScenarioTable == (Canonical(1234) :> (Star :> <<[chat_id |-> "999"]>>))

ScenarioDecision ==
    (call.done /\ rules = ScenarioTable /\ PyStr(call.chat_id) = Bare(1234)) =>
        /\ Len(call.result) = 1
        /\ call.result[1].to_chat = "999"
        /\ call.result[1].to_topic = None

\* a rule keyed "N" or "-N" is matched by the inbound chat id "-100N"
StrippedRuleMatchesCanonicalId(n) ==
    /\ (/\ PyStr(call.chat_id) = Canonical(n)
        /\ Canonical(n) \notin DOMAIN rules
        /\ Bare(n) \in DOMAIN rules) => MatchedBy(Bare(n))
    /\ (/\ PyStr(call.chat_id) = Canonical(n)
        /\ Canonical(n) \notin DOMAIN rules
        /\ Bare(n) \notin DOMAIN rules
        /\ SingleMinus(n) \in DOMAIN rules) => MatchedBy(SingleMinus(n))

\* a rule keyed "-100N" is matched by the inbound chat id "N"
CanonicalRuleMatchesBareId(n) ==
    (/\ PyStr(call.chat_id) = Bare(n)
     /\ Bare(n) \notin DOMAIN rules
     /\ Canonical(n) \in DOMAIN rules) => MatchedBy(Canonical(n))

\* a rule keyed "-100N" is matched by the inbound chat id "-N"
CanonicalRuleMatchesSingleMinusId(n) ==
    (/\ PyStr(call.chat_id) = SingleMinus(n)
     /\ SingleMinus(n) \notin DOMAIN rules
     /\ Canonical(n) \in DOMAIN rules) => MatchedBy(Canonical(n))

\* C4 as stated: a rule keyed "-100N" is matched by an inbound chat id "N"
\* and by "-N", a rule keyed "N" or "-N" by an inbound chat id "-100N", for
\* every chat number N (no earlier candidate key being in the table).
C4_AsStated ==
    call.done =>
        /\ ScenarioDecision
        /\ \A n \in ChatNumbers :
              /\ CanonicalRuleMatchesBareId(n)
              /\ CanonicalRuleMatchesSingleMinusId(n)
              /\ StrippedRuleMatchesCanonicalId(n)

\* C4 (amended): as C4, but an inbound "-N" matches the rule keyed "-100N"
\* only if the text "-N" does not itself start with "-100"; a text that does
\* is read as a canonical form and only its own three candidates are tried.
C4_PrefixFormsMatch ==
    call.done =>
        /\ ScenarioDecision
        /\ \A n \in ChatNumbers :
              /\ CanonicalRuleMatchesBareId(n)
              /\ (~StartsWith(SingleMinus(n), Prefix100)
                    => CanonicalRuleMatchesSingleMinusId(n))
              /\ StrippedRuleMatchesCanonicalId(n)

\* the scenario itself
C4_Witness ==
    /\ call.done
    /\ rules = ScenarioTable
    /\ call.chat_id = StrId(Bare(1234))
    /\ call.result = <<[to_chat |-> "999", to_topic |-> None,
                        include_source |-> TRUE]>>

\* the single-minus form reaching the canonical rule
C4_SingleMinusWitness ==
    /\ call.done
    /\ call.chat_id = StrId(SingleMinus(1234))
    /\ SingleMinus(1234) \notin DOMAIN rules
    /\ Canonical(1234) \in DOMAIN rules
    /\ call.result # <<>>
    /\ MatchedBy(Canonical(1234))

(***************************************************************************)
(* The message pipeline.                                                   *)
(*                                                                         *)
(* The handlers are coroutines of one event loop: a handler runs alone     *)
(* from one transport call to the next, and other handlers run while it    *)
(* awaits.  A step of the model is therefore: the awaited call returns     *)
(* (or raises), and the handler runs up to its next transport call.  The   *)
(* operators below take and return a machine state st: the handler's       *)
(* local variables st.l and the caches st.ent (chat_entities), st.top      *)
(* (chat_topics), st.nf (no_forward_chats), st.lnk                         *)
(* (resolved_message_links), and the history st.rs (restricted);           *)
(* st.l.pc names the transport call awaited.                               *)
(* A local variable that is not read any more (sender_id once the rules    *)
(* are matched, message once the enrichment is gathered) is cleared, so    *)
(* that states differing only in dead values coincide.                     *)
(***************************************************************************)

Machine(e) ==
    [l |-> handler[e], ent |-> chat_entities, top |-> chat_topics,
     nf |-> no_forward_chats, lnk |-> resolved_message_links,
     rs |-> restricted]

\* a step that waits until no other handler is inside a call, as with calls
\* that block the event loop
CommitBlocking(e, st) ==
    /\ \A f \in Handlers \ {e} : handler[f].pc = "idle"
    /\ handler' = [handler EXCEPT ![e] = st.l]
    /\ chat_entities' = st.ent
    /\ chat_topics' = st.top
    /\ no_forward_chats' = st.nf
    /\ resolved_message_links' = st.lnk
    /\ restricted' = st.rs
    /\ UNCHANGED <<rules, call>>

Commit(e, st) ==
    /\ handler' = [handler EXCEPT ![e] = st.l]
    /\ chat_entities' = st.ent
    /\ chat_topics' = st.top
    /\ no_forward_chats' = st.nf
    /\ resolved_message_links' = st.lnk
    /\ restricted' = st.rs
    /\ UNCHANGED <<rules, call>>

\* the handler returns
Finish(st) == [st EXCEPT !.l = [Idle EXCEPT !.failed_chat = st.l.failed_chat]]

(***************************************************************************)
(* entities.EntityManager.get_entity                                       *)
(***************************************************************************)

IsDigitChar(c) == \E d \in 1..Len(Digit) : Digit[d] = c

\* str.isdigit()
IsDigits(s) == s # <<>> /\ \A n \in 1..Len(s) : IsDigitChar(s[n])

\* int(s) does not raise
IsIntLiteral(s) ==
    IF s # <<>> /\ Head(s) = "-" THEN IsDigits(Tail(s)) ELSE IsDigits(s)

\* the three branches of get_entity: the transport is called unless int()
\* raises on a text that is neither "@..." nor a number
EntityLookupReachesTransport(key) ==
    \/ "int" \in DOMAIN key
    \/ (~StartsWith(key.str, Prefix100) /\ StartsWith(key.str, <<"@">>))
    \/ IsIntLiteral(key.str)

\* get_entity has no cached answer and asks the transport: lines 47-56
GetEntityAsksTransport(entities, key) ==
    key \notin DOMAIN entities /\ EntityLookupReachesTransport(key)

\* variant: a failed lookup marks the chat as refusing forwarding
GetEntityReturnMarking(st, key, o) ==
    IF IsFail(o) THEN [st EXCEPT !.nf = @ \cup {key}]
    ELSE [st EXCEPT !.ent = (key :> o) @@ @]

\* variant: a failed lookup is cached as a miss
GetEntityReturnNegative(st, key, o) ==
    [st EXCEPT !.ent = (key :> (IF IsFail(o) THEN NoneResult ELSE o)) @@ @]

\* the transport returned or raised: lines 57-63
GetEntityReturn(st, key, o) ==
    IF IsFail(o) THEN st ELSE [st EXCEPT !.ent = (key :> o) @@ @]

\* the value get_entity returns then
EntityResult(o) == IF IsFail(o) THEN NoneResult ELSE o

(***************************************************************************)
(* forwarding.ForwardingManager.forward_message: the reconstruction path   *)
(* with entities.get_chat_title and entities.get_topic_name                *)
(***************************************************************************)

CurrentTarget(st) == st.l.forwarding_info[st.l.target]

\* lines 102-117: prepare_forwarding_content, then the main send is awaited
AwaitSend(st) == [st EXCEPT !.l.pc = "send_message"]

\* variant: the names of the other topics of the chat are dropped
TopicNamedAlone(st, name) ==
    [st EXCEPT !.top[st.l.chat_id] = (st.l.topic_id :> name)]

\* self.chat_topics[chat_id][topic_id] = name
TopicNamed(st, name) ==
    [st EXCEPT !.top[st.l.chat_id] = (st.l.topic_id :> name) @@ @]

\* f"Topic {topic_id}"
FallbackName(topic_id) == <<"T", "o", "p", "i", "c", " ">> \o IntStr(topic_id)

\* forwarding.py 98-100: get_topic_name returns the name
ReturnTopicName(st, name) == AwaitSend([st EXCEPT !.l.topic_name = name])

\* variant: the fallback name is returned without being stored
TopicFallbackUncached(st) == ReturnTopicName(st, FallbackName(st.l.topic_id))

\* entities.py 155-158
TopicFallback(st) ==
    ReturnTopicName(TopicNamed(st, FallbackName(st.l.topic_id)),
                    FallbackName(st.l.topic_id))

\* entities.py 121-133: the second method awaits GetMessagesRequest
TopicSecondMethod(st) == [st EXCEPT !.l.pc = "topic_get_messages"]

\* entities.py 104-118: the first method awaits GetFullChannelRequest for a
\* megagroup.  With entity None the requests of the second and third method
\* raise when they are built into a call, before anything is awaited.
TopicAfterEntity(st, entity) ==
    IF IsNone(entity) THEN TopicFallback(st)
    ELSE IF Flag(entity, "channel") /\ Flag(entity, "megagroup")
         THEN [st EXCEPT !.l.pc = "topic_full_channel"]
         ELSE TopicSecondMethod(st)

\* entities.py 91-104
get_topic_name(st) ==
    LET chat_id == st.l.chat_id
        topic_id == st.l.topic_id
    IN  IF chat_id \in DOMAIN st.top /\ topic_id \in DOMAIN st.top[chat_id]
        THEN ReturnTopicName(st, st.top[chat_id][topic_id])
        ELSE LET st1 == IF chat_id \in DOMAIN st.top THEN st
                        ELSE [st EXCEPT !.top = (chat_id :> EmptyDict) @@ @]
             IN  IF chat_id \in DOMAIN st1.ent
                 THEN TopicAfterEntity(st1, st1.ent[chat_id])
                 ELSE [st1 EXCEPT !.l.pc = "topic_get_entity"]

\* forwarding.py 97-100
AfterChatTitle(st) ==
    IF Truthy(st.l.topic_id) THEN get_topic_name(st) ELSE AwaitSend(st)

\* forwarding.py 93-95: get_chat_title calls get_entity
Reconstruct(st) ==
    IF st.l.chat_id \in DOMAIN st.ent THEN AfterChatTitle(st)
    ELSE [st EXCEPT !.l.pc = "title_get_entity"]

\* variant: the failure is not remembered
ForwardingRestrictedForgotten(st) == Reconstruct(st)

\* forwarding.py 84-88: the native forward raised ForbiddenError,
\* ChatAdminRequiredError or ChannelPrivateError
ForwardingRestricted(st) ==
    Reconstruct([st EXCEPT !.nf = @ \cup {st.l.chat_id},
                           !.rs = @ \cup {st.l.chat_id}])

\* variant: every error of the native forward marks the chat
ForwardingFailedMarking(st) ==
    Reconstruct([st EXCEPT !.nf = @ \cup {st.l.chat_id},
                           !.l.failed_chat = st.l.chat_id])

\* forwarding.py 89-91: the native forward raised another error
ForwardingFailed(st) == Reconstruct([st EXCEPT !.l.failed_chat = st.l.chat_id])

\* variant: the enrichment blocks are not looked at
NativeForwardChosenIgnoringContent(l) == l.can_forward

\* forwarding.py 57: if can_forward_directly and not message_contents
NativeForwardChosen(l) == l.can_forward /\ l.additional_content = <<>>

\* variant: the loop is left when the targets are exhausted or one failed
LoopEndsAfterFailure(st, i, failed) == i > Len(st.l.forwarding_info) \/ failed

\* forwarding.py 50-51, 133-134: the loop ends when the targets are exhausted;
\* a failure of the previous target is caught inside the loop body
LoopEnds(st, i, failed) == i > Len(st.l.forwarding_info)

\* forwarding.py 50-57: the loop goes on with target number i
NextTarget(st, i, failed) ==
    IF LoopEnds(st, i, failed) THEN Finish(st)
    ELSE LET st1 == [st EXCEPT !.l.target = i, !.l.media_item = 0,
                               !.l.topic_name = <<>>,
                               !.l.last_failed = failed,
                               !.l.edit_failed = FALSE] IN
         IF NativeForwardChosen(st1.l)
         THEN [st1 EXCEPT !.l.pc = "forward_messages"]
         ELSE Reconstruct(st1)

\* variant: a failed edit falls through to the text-based forwarding
AfterEditFallingBack(st, o) ==
    IF o = "ok" THEN NextTarget(st, st.l.target + 1, FALSE) ELSE Reconstruct(st)

\* forwarding.py 72-83: the edit returned or raised; the exception is caught
\* next to the call, and `continue` goes on with the next target.  The
\* outcome is kept as history.
AfterEdit(st, o) ==
    LET st1 == NextTarget(st, st.l.target + 1, FALSE) IN
    IF st1.l.pc = "idle" THEN st1 ELSE [st1 EXCEPT !.l.edit_failed = (o # "ok")]

\* content["media"] and not isinstance(content["media"], MessageMediaWebPage)
IsSendableMedia(content) == content.media # "none" /\ content.media # "webpage"

\* processors.py 281-289
AdditionalMedia(additional_contents) ==
    SelectSeq(additional_contents, IsSendableMedia)

\* variant: a failed follow-up ends the follow-ups of the target
AfterAdditionalStopping(st, o) ==
    IF o = "ok" /\ st.l.media_item < Len(AdditionalMedia(st.l.additional_content))
    THEN [st EXCEPT !.l.media_item = @ + 1]
    ELSE NextTarget(st, st.l.target + 1, FALSE)

\* forwarding.py 120-132: the send of one additional media item returned or
\* raised; the exception is caught inside the loop over additional_media
AfterAdditional(st, o) ==
    IF st.l.media_item < Len(AdditionalMedia(st.l.additional_content))
    THEN [st EXCEPT !.l.media_item = @ + 1]
    ELSE NextTarget(st, st.l.target + 1, FALSE)

(***************************************************************************)
(* link_manager.LinkManager.fetch_linked_message and the link loop of      *)
(* handlers.MessageHandler.process_and_forward_message                     *)
(***************************************************************************)

\* link_data.get('chat_id', link_data.get('username'))
LinkRef(link_data) ==
    IF "chat_id" \in DOMAIN link_data THEN link_data.chat_id
    ELSE link_data.username

\* variant: the topic id is part of the cache key
CacheKeyWithTopic(link_data) ==
    <<LinkRef(link_data), link_data.message_id,
      GetAttr(link_data, "topic_id", None)>>

\* f"{ref}-{message_id}"
CacheKey(link_data) == <<LinkRef(link_data), link_data.message_id>>

\* link_manager.py 93-104: the key handed to get_entity
LinkEntityKey(link_data) ==
    IF "chat_id" \in DOMAIN link_data
    THEN IF ~StartsWith(link_data.chat_id, Prefix100) /\ IsDigits(link_data.chat_id)
         THEN StrId(Prefix100 \o link_data.chat_id)
         ELSE StrId(link_data.chat_id)
    ELSE StrId(link_data.username)

CurrentLink(st) == st.l.message.links[st.l.link]

\* handlers.py 475-479: format_message_for_forwarding awaits get_sender
AwaitLinkSender(st) == [st EXCEPT !.l.pc = "link_get_sender"]

RECURSIVE ProcessLinks(_, _)
RECURSIVE fetch_linked_message(_)

\* link_manager.py 85-112, up to the first transport call
fetch_linked_message(st) ==
    LET link_data == CurrentLink(st)
        cache_key == CacheKey(link_data)
        key == LinkEntityKey(link_data)
    IN  IF cache_key \in DOMAIN st.lnk
        THEN AwaitLinkSender([st EXCEPT !.l.linked = st.lnk[cache_key]])
        ELSE IF key \in DOMAIN st.ent
             THEN [st EXCEPT !.l.pc = "link_get_messages"]
             ELSE IF EntityLookupReachesTransport(key)
                  THEN [st EXCEPT !.l.pc = "link_get_entity"]
                  ELSE ProcessLinks(st, st.l.link + 1)

\* handlers.py 140-157: the loop over message_links, then forward_message
ProcessLinks(st, k) ==
    IF st.l.message.text /\ k <= Len(st.l.message.links)
    THEN fetch_linked_message([st EXCEPT !.l.link = k, !.l.linked = NoMessage])
    ELSE NextTarget([st EXCEPT !.l.link = 0, !.l.linked = NoMessage,
                               !.l.message = NoMessage], 1, FALSE)

\* link_manager.py 185-211: the final check, the cache store, the return
FinishFetch(st) ==
    IF st.l.linked = NoMessage
    THEN ProcessLinks(st, st.l.link + 1)
    ELSE AwaitLinkSender(
           [st EXCEPT !.lnk = (CacheKey(CurrentLink(st)) :> st.l.linked) @@ @])

\* link_manager.py 157-162: the third approach is tried
AfterSecondApproach(st) ==
    IF st.l.linked = NoMessage \/ st.l.linked.text = ""
    THEN [st EXCEPT !.l.pc = "link_raw_request"]
    ELSE FinishFetch(st)

\* variant: the second approach is tried for a record without topic id too
AfterFirstApproachAnyRecord(st) ==
    IF st.l.linked = NoMessage \/ st.l.linked.text = ""
    THEN [st EXCEPT !.l.pc = "link_get_messages_topic"]
    ELSE AfterSecondApproach(st)

\* link_manager.py 134-135: the second approach is tried
AfterFirstApproach(st) ==
    IF /\ Truthy(GetAttr(CurrentLink(st), "topic_id", None))
       /\ (st.l.linked = NoMessage \/ st.l.linked.text = "")
    THEN [st EXCEPT !.l.pc = "link_get_messages_topic"]
    ELSE AfterSecondApproach(st)

\* the block format_message_for_forwarding returns for a message
Block(message) == [media |-> message.media]

(***************************************************************************)
(* handlers.MessageHandler.handle_new_message up to the enrichment         *)
(***************************************************************************)

\* handlers.py 116-138: process_and_forward_message is not given sender_id
Process(st) ==
    LET st1 == [st EXCEPT !.l.sender_id = None] IN
    IF is_genuine_reply(st.l.message, st.l.topic_id)
    THEN [st1 EXCEPT !.l.pc = "reply_get_messages"]
    ELSE ProcessLinks(st1, 1)

\* entities.py 174-190: can_forward_from_chat once get_entity has returned
CanForwardWith(st, entity) ==
    IF IsNone(entity)
    THEN Process([st EXCEPT !.nf = @ \cup {st.l.chat_id}, !.l.can_forward = FALSE])
    ELSE IF EntityForbidsForward(entity)
         THEN Process([st EXCEPT !.nf = @ \cup {st.l.chat_id},
                                 !.l.can_forward = FALSE])
         ELSE Process([st EXCEPT !.l.can_forward = TRUE])

\* variant: the set of chats known to refuse forwarding is not consulted
can_forward_from_chat_unremembered(st) ==
    IF st.l.chat_id \in DOMAIN st.ent
    THEN CanForwardWith(st, st.ent[st.l.chat_id])
    ELSE [st EXCEPT !.l.pc = "can_forward_get_entity"]

\* entities.py 170-174
can_forward_from_chat(st) ==
    IF st.l.chat_id \in st.nf
    THEN Process([st EXCEPT !.l.can_forward = FALSE])
    ELSE IF st.l.chat_id \in DOMAIN st.ent
         THEN CanForwardWith(st, st.ent[st.l.chat_id])
         ELSE [st EXCEPT !.l.pc = "can_forward_get_entity"]

\* variant: can_forward_from_chat and the processing are entered before the
\* decision is looked at
DecideUnconditionally(st) ==
    can_forward_from_chat(
      [st EXCEPT !.l.forwarding_info =
                    should_forward(rules, st.l.chat_id, st.l.topic_id,
                                   st.l.sender_id)])

\* handlers.py 101-114
Decide(st) ==
    LET forwarding_info ==
            should_forward(rules, st.l.chat_id, st.l.topic_id, st.l.sender_id)
    IN  IF forwarding_info = <<>> THEN [Finish(st) EXCEPT !.l.no_rule = TRUE]
        ELSE can_forward_from_chat(
               [st EXCEPT !.l.forwarding_info = forwarding_info])

(***************************************************************************)
(* The events, rule table and transport results of the pipeline            *)
(***************************************************************************)

\* a chat that may be a forum, keyed in the rule file by its bare number;
\* a chat that is no forum, keyed by its full id; a chat without rules
ForumChat == IntId(0 - 1001234)
PlainChat == IntId(0 - 1005)
UnruledChat == IntId(77)

ForumEntry == (Star :> <<T888>>) @@ (IntStr(1) :> <<T999>>)
PipelineTable ==
    (IntStr(1234) :> ForumEntry) @@ (IntStr(0 - 1005) :> (Star :> <<T888, T999>>))

LinkWithTopic ==
    [full_match |-> "https://t.me/c/555/10/3", chat_id |-> IntStr(555),
     message_id |-> 10, topic_id |-> 3]

MsgPlain ==
    [id |-> 10, post |-> FALSE, text |-> TRUE, media |-> "none",
     reply_to |-> NoReply, links |-> <<>>]
\* LinkNoTopic: the same chat and message as LinkWithTopic, without a topic
\* segment; LinkUsername: a link of the username form
PipelineMessages ==
    LET MsgReply ==
            [MsgPlain EXCEPT !.reply_to =
                [reply_to_msg_id |-> 5, forum_topic |-> FALSE,
                 reply_to_top_id |-> None]]
        MsgTopicReply ==
            [MsgPlain EXCEPT !.reply_to =
                [reply_to_msg_id |-> 5, forum_topic |-> TRUE]]
        MsgLink == [MsgPlain EXCEPT !.links = <<LinkWithTopic>>]
        LinkNoTopic ==
            [full_match |-> "https://t.me/c/555/10", chat_id |-> IntStr(555),
             message_id |-> 10]
        LinkUsername ==
            [full_match |-> "https://t.me/alice/20",
             username |-> <<"a", "l", "i", "c", "e">>, message_id |-> 20]
        MsgTwoLinks == [MsgPlain EXCEPT !.links = <<LinkNoTopic, LinkWithTopic>>]
        MsgUserLink == [MsgPlain EXCEPT !.links = <<LinkUsername>>]
    IN  {MsgPlain, MsgReply, MsgTopicReply, MsgLink, MsgTwoLinks, MsgUserLink}

Supergroup ==
    [channel |-> TRUE, megagroup |-> TRUE, forum |-> TRUE, noforwards |-> FALSE]
OpenChannel ==
    [channel |-> TRUE, megagroup |-> FALSE, forum |-> FALSE, noforwards |-> FALSE]
RestrictedChannel ==
    [channel |-> TRUE, megagroup |-> FALSE, forum |-> FALSE, noforwards |-> TRUE]
RestrictedBasicGroup ==
    [channel |-> FALSE, megagroup |-> FALSE, forum |-> FALSE, noforwards |-> TRUE]

\* what the transport may answer to get_entity(key)
EntityOutcomes(key) ==
    IF key = ForumChat
    THEN {Fail, Supergroup, RestrictedChannel, RestrictedBasicGroup}
    ELSE IF key = PlainChat
         THEN {Fail, OpenChannel, RestrictedChannel, RestrictedBasicGroup}
         ELSE {Fail, OpenChannel}

SenderOutcomes == {Fail, NoneResult, [id |-> 42], [id |-> 7]}

MessageOutcomes ==
    {Fail, NoneResult, [text |-> "text", media |-> "none"],
     [text |-> "", media |-> "photo"], [text |-> "text", media |-> "webpage"]}

RawMessageOutcomes ==
    {Fail, NoneResult, [text |-> "raw", media |-> "none"],
     [text |-> "", media |-> "photo"]}

CallOutcomes == {"ok", "error"}

TitleB == <<"B">>

ListingOutcomes == {Fail, NoneResult, [topics |-> (1 :> <<"A">>)]}
TitleOutcomes == {Fail, NoneResult, [title |-> TitleB]}

(***************************************************************************)
(* The steps of a handler                                                  *)
(***************************************************************************)

\* handlers.py 61-87: the handler is entered and awaits message.get_sender()
Entered(st, chat_id, message) ==
    [st EXCEPT !.l = [Idle EXCEPT !.pc = "get_sender",
                                  !.chat_id = chat_id,
                                  !.message = message,
                                  !.after_restriction = chat_id \in st.rs]]

\* handlers.py 52-59: an event arrives while no other event is being handled;
\* the history of the events before it is dropped
Receive(e) ==
    /\ \A f \in Handlers : handler[f].pc = "idle"
    /\ \E chat_id \in {ForumChat, UnruledChat}, message \in PipelineMessages :
          /\ handler' = [f \in Handlers |->
                            IF f = e
                            THEN [Entered(Machine(e), chat_id, message).l
                                    EXCEPT !.after_failure =
                                             handler[e].failed_chat = chat_id]
                            ELSE Idle]
          /\ UNCHANGED <<rules, call, caches, restricted>>

\* handlers.py 52-59: an event of the plain chat arrives, whatever the other
\* handlers are doing
ReceiveOverlapping(e) ==
    /\ handler[e].pc = "idle"
    /\ Commit(e, Entered(Machine(e), PlainChat, MsgPlain))

\* variant: an error of get_sender is not caught and ends the handler
SenderReturnedUncaught(e, o) ==
    /\ handler[e].pc = "get_sender"
    /\ Commit(e, IF IsFail(o) THEN Finish(Machine(e))
                 ELSE [Machine(e) EXCEPT
                         !.l.sender_id = IF IsNone(o) THEN None ELSE o.id,
                         !.l.pc = "client_get_entity"])

\* variant: a sender that could not be read counts as a sender of its own
SenderReturnedAnonymous(e, o) ==
    /\ handler[e].pc = "get_sender"
    /\ Commit(e, [Machine(e) EXCEPT
                    !.l.sender_id = IF IsFail(o) \/ IsNone(o) THEN 0 ELSE o.id,
                    !.l.pc = "client_get_entity"])

\* handlers.py 85-98, processors.py 127-129: sender_id; extract_topic_id
\* awaits client.get_entity
SenderReturnedWith(e, o) ==
    /\ handler[e].pc = "get_sender"
    /\ Commit(e, [Machine(e) EXCEPT
                    !.l.sender_id = IF IsFail(o) \/ IsNone(o) THEN None ELSE o.id,
                    !.l.pc = "client_get_entity"])

SenderReturned(e) == \E o \in SenderOutcomes : SenderReturnedWith(e, o)

\* processors.py 129-189, then handlers.py 98-114
TopicEntityReturnedWith(e, o) ==
    /\ handler[e].pc = "client_get_entity"
    /\ Commit(e, Decide([Machine(e) EXCEPT
                           !.l.topic_id = extract_topic_id(handler[e].message, o)]))

TopicEntityReturned(e) ==
    \E o \in EntityOutcomes(handler[e].chat_id) : TopicEntityReturnedWith(e, o)

\* entities.py 174-190: get_entity returns inside can_forward_from_chat
CanForwardEntityReturnedWith(e, o) ==
    /\ handler[e].pc = "can_forward_get_entity"
    /\ Commit(e, CanForwardWith(
                   GetEntityReturn(Machine(e), handler[e].chat_id, o),
                   EntityResult(o)))

CanForwardEntityReturned(e) ==
    \E o \in EntityOutcomes(handler[e].chat_id) :
        CanForwardEntityReturnedWith(e, o)

\* processors.py 229-242: client.get_messages of the replied-to message
ReplyFetchedWith(e, o) ==
    /\ handler[e].pc = "reply_get_messages"
    /\ Commit(e, IF IsFail(o) \/ IsNone(o)
                 THEN ProcessLinks(Machine(e), 1)
                 ELSE [Machine(e) EXCEPT !.l.linked = o,
                                         !.l.pc = "reply_get_sender"])

ReplyFetched(e) == \E o \in MessageOutcomes : ReplyFetchedWith(e, o)

\* processors.py 43-111, handlers.py 136-138: the reply block is appended
ReplySenderReturned(e) ==
    /\ handler[e].pc = "reply_get_sender"
    /\ \E o \in SenderOutcomes :
          Commit(e, ProcessLinks(
                      [Machine(e) EXCEPT
                         !.l.additional_content = Append(@, Block(handler[e].linked))],
                      1))

\* link_manager.py 101-119: get_entity returns inside fetch_linked_message
LinkEntityReturnedWith(e, o) ==
    /\ handler[e].pc = "link_get_entity"
    /\ LET st == GetEntityReturn(Machine(e),
                                 LinkEntityKey(CurrentLink(Machine(e))), o)
       IN  Commit(e, IF IsFail(o)
                     THEN ProcessLinks(st, st.l.link + 1)
                     ELSE [st EXCEPT !.l.pc = "link_get_messages"])

LinkEntityReturned(e) ==
    /\ handler[e].pc = "link_get_entity"
    /\ \E o \in EntityOutcomes(LinkEntityKey(CurrentLink(Machine(e)))) :
          LinkEntityReturnedWith(e, o)

\* link_manager.py 117-135: the first approach returns
LinkDirectFetchedWith(e, o) ==
    /\ handler[e].pc = "link_get_messages"
    /\ Commit(e, AfterFirstApproach(
                   IF IsFail(o) \/ IsNone(o) THEN Machine(e)
                   ELSE [Machine(e) EXCEPT !.l.linked = o]))

LinkDirectFetched(e) == \E o \in MessageOutcomes : LinkDirectFetchedWith(e, o)

\* link_manager.py 136-162: the second approach returns
LinkTopicFetchedWith(e, o) ==
    /\ handler[e].pc = "link_get_messages_topic"
    /\ Commit(e, AfterSecondApproach(
                   IF IsFail(o) \/ IsNone(o) \/ o.text = "" THEN Machine(e)
                   ELSE [Machine(e) EXCEPT !.l.linked = o]))

LinkTopicFetched(e) == \E o \in MessageOutcomes : LinkTopicFetchedWith(e, o)

\* link_manager.py 163-211: the third approach returns
LinkRawFetchedWith(e, o) ==
    /\ handler[e].pc = "link_raw_request"
    /\ Commit(e, FinishFetch(
                   IF IsFail(o) \/ IsNone(o) \/ o.text = "" THEN Machine(e)
                   ELSE IF handler[e].linked = NoMessage
                        THEN [Machine(e) EXCEPT !.l.linked = o]
                        ELSE [Machine(e) EXCEPT !.l.linked.text = o.text]))

LinkRawFetched(e) == \E o \in RawMessageOutcomes : LinkRawFetchedWith(e, o)

\* processors.py 43-111, handlers.py 151-155: the link block is appended
LinkSenderReturned(e) ==
    /\ handler[e].pc = "link_get_sender"
    /\ \E o \in SenderOutcomes :
          Commit(e, ProcessLinks(
                      [Machine(e) EXCEPT
                         !.l.additional_content = Append(@, Block(handler[e].linked))],
                      handler[e].link + 1))

\* forwarding.py 62-91: client.forward_messages returns or raises
ForwardReturnedWith(e, o) ==
    /\ handler[e].pc = "forward_messages"
    /\ LET st == Machine(e) IN
       Commit(e,
         CASE o = "ok" ->
                IF Truthy(CurrentTarget(st).to_topic)
                THEN [st EXCEPT !.l.pc = "edit_message"]
                ELSE NextTarget(st, st.l.target + 1, FALSE)
           [] o = "ok_none" -> NextTarget(st, st.l.target + 1, FALSE)
           [] o = "restricted" -> ForwardingRestricted(st)
           [] OTHER -> ForwardingFailed(st))

ForwardReturned(e) ==
    \E o \in {"ok", "ok_none", "restricted", "error"} : ForwardReturnedWith(e, o)

\* forwarding.py 72-83: client.edit_message returns or raises
EditReturned(e) ==
    /\ handler[e].pc = "edit_message"
    /\ \E o \in CallOutcomes : Commit(e, AfterEdit(Machine(e), o))

\* entities.py 75-78: get_entity returns inside get_chat_title
TitleEntityReturnedWith(e, o) ==
    /\ handler[e].pc = "title_get_entity"
    /\ Commit(e, AfterChatTitle(GetEntityReturn(Machine(e), handler[e].chat_id, o)))

TitleEntityReturned(e) ==
    \E o \in EntityOutcomes(handler[e].chat_id) : TitleEntityReturnedWith(e, o)

\* entities.py 104: get_entity returns inside get_topic_name
TopicNameEntityReturnedWith(e, o) ==
    /\ handler[e].pc = "topic_get_entity"
    /\ Commit(e, TopicAfterEntity(
                   GetEntityReturn(Machine(e), handler[e].chat_id, o),
                   EntityResult(o)))

TopicNameEntityReturned(e) ==
    \E o \in EntityOutcomes(handler[e].chat_id) :
        TopicNameEntityReturnedWith(e, o)

\* entities.py 109-118: GetFullChannelRequest returns or raises
TopicListingReturnedWith(e, o) ==
    /\ handler[e].pc = "topic_full_channel"
    /\ LET st == Machine(e) IN
       Commit(e,
         IF IsFail(o) \/ IsNone(o) THEN TopicSecondMethod(st)
         ELSE LET st1 == [st EXCEPT !.top[st.l.chat_id] = o.topics @@ @] IN
              IF st.l.topic_id \in DOMAIN st1.top[st.l.chat_id]
              THEN ReturnTopicName(st1, st1.top[st.l.chat_id][st.l.topic_id])
              ELSE TopicSecondMethod(st1))

TopicListingReturned(e) == \E o \in ListingOutcomes : TopicListingReturnedWith(e, o)

\* entities.py 122-134: GetMessagesRequest returns or raises
TopicStarterReturnedWith(e, o) ==
    /\ handler[e].pc = "topic_get_messages"
    /\ Commit(e, IF IsFail(o) \/ IsNone(o)
                 THEN [Machine(e) EXCEPT !.l.pc = "topic_discussion"]
                 ELSE ReturnTopicName(TopicNamed(Machine(e), o.title), o.title))

TopicStarterReturned(e) == \E o \in TitleOutcomes : TopicStarterReturnedWith(e, o)

\* entities.py 137-158: GetDiscussionMessageRequest returns or raises
TopicDiscussionReturnedWith(e, o) ==
    /\ handler[e].pc = "topic_discussion"
    /\ Commit(e, IF IsFail(o) \/ IsNone(o)
                 THEN TopicFallback(Machine(e))
                 ELSE ReturnTopicName(TopicNamed(Machine(e), o.title), o.title))

TopicDiscussionReturned(e) ==
    \E o \in TitleOutcomes : TopicDiscussionReturnedWith(e, o)

\* forwarding.py 111-134: the main send returns or raises
SendReturnedWith(e, o) ==
    /\ handler[e].pc = "send_message"
    /\ LET st == Machine(e) IN
       Commit(e,
         IF o = "ok" /\ AdditionalMedia(st.l.additional_content) # <<>>
         THEN [st EXCEPT !.l.pc = "send_additional", !.l.media_item = 1]
         ELSE NextTarget(st, st.l.target + 1, o # "ok"))

SendReturned(e) == \E o \in CallOutcomes : SendReturnedWith(e, o)

\* forwarding.py 120-132: the send of one additional media item returns or raises
AdditionalSent(e) ==
    /\ handler[e].pc = "send_additional"
    /\ \E o \in CallOutcomes : Commit(e, AfterAdditional(Machine(e), o))

(***************************************************************************)
(* Specification of the pipeline                                           *)
(***************************************************************************)

\* no call of should_forward is being observed
Init ==
    /\ rules = PipelineTable
    /\ call = [chat_id |-> IntId(0), topic_id |-> None, user_id |-> None,
               done |-> TRUE, result |-> <<>>]
    /\ InitCaches
    /\ handler = [e \in Handlers |-> Idle]
    /\ restricted = {}

Next ==
    \E e \in Handlers :
        \/ Receive(e)
        \/ SenderReturned(e)
        \/ TopicEntityReturned(e)
        \/ CanForwardEntityReturned(e)
        \/ ReplyFetched(e)
        \/ ReplySenderReturned(e)
        \/ LinkEntityReturned(e)
        \/ LinkDirectFetched(e)
        \/ LinkTopicFetched(e)
        \/ LinkRawFetched(e)
        \/ LinkSenderReturned(e)
        \/ ForwardReturned(e)
        \/ EditReturned(e)
        \/ TitleEntityReturned(e)
        \/ TopicNameEntityReturned(e)
        \/ TopicListingReturned(e)
        \/ TopicStarterReturned(e)
        \/ TopicDiscussionReturned(e)
        \/ SendReturned(e)
        \/ AdditionalSent(e)

Spec == Init /\ [][Next]_vars

(***************************************************************************)
(* Specification of overlapping events: the handlers of several events of  *)
(* the plain chat interleave at their transport calls                       *)
(***************************************************************************)

NextOverlap ==
    \E e \in Handlers :
        \/ ReceiveOverlapping(e)
        \/ SenderReturned(e)
        \/ TopicEntityReturned(e)
        \/ CanForwardEntityReturned(e)
        \/ ForwardReturned(e)
        \/ EditReturned(e)
        \/ TitleEntityReturned(e)
        \/ SendReturned(e)

SpecOverlap == Init /\ [][NextOverlap]_vars

(***************************************************************************)
(* Claims about forward_message and can_forward_from_chat                  *)
(***************************************************************************)

\* the calls of the native path, of the preparation of a rebuilt message, and
\* of its sends
NativeCalls == {"forward_messages", "edit_message"}
PreparationCalls ==
    {"title_get_entity", "topic_get_entity", "topic_full_channel",
     "topic_get_messages", "topic_discussion"}
ReconstructionCalls == PreparationCalls \cup {"send_message"}
DeliveryCalls == NativeCalls \cup {"send_message", "send_additional"}
ForwardStage == NativeCalls \cup ReconstructionCalls \cup {"send_additional"}

\* the step is one of handler e
Moved(e) == handler'[e] # handler[e]

\* the step of handler e begins the loop body of a target
StartsTarget(e) ==
    /\ handler'[e].pc \in ForwardStage
    /\ handler'[e].target # handler[e].target

\* the step of handler e issues client.forward_messages
IssuesNativeForward(e) == Moved(e) /\ handler'[e].pc = "forward_messages"

\* C5: a native forward is attempted for a target if and only if the
\* forwarding-allowed value computed for the message is true and the message
\* has no enrichment block; a native forward is issued nowhere but at the
\* start of a target, and every target of a message with an enrichment block
\* starts in the reconstruction path.
C5_NativeIffAllowedAndBare ==
    [][\A e \in Handlers :
         /\ IssuesNativeForward(e) => StartsTarget(e)
         /\ StartsTarget(e) =>
              /\ (handler'[e].pc = "forward_messages")
                   <=> (handler'[e].can_forward
                        /\ handler'[e].additional_content = <<>>)
              /\ handler'[e].additional_content # <<>>
                   => handler'[e].pc \in ReconstructionCalls]_vars

\* a message of a chat that allows forwarding carries an enrichment block and
\* is sent rebuilt
C5_Witness ==
    \E e \in Handlers :
        /\ handler[e].pc = "send_message"
        /\ handler[e].can_forward
        /\ handler[e].additional_content # <<>>

\* C6: when the native forward to a target raises a forwarding-restriction
\* error, the source chat is in no_forward_chats afterwards and the handler
\* goes on with the reconstruction of the same target; from the preparation
\* of a rebuilt message the handler moves to nothing but the preparation or
\* the main send of the same target.
C6_RestrictionFallsBack ==
    [][\A e \in Handlers :
         /\ ForwardReturnedWith(e, "restricted") =>
              /\ handler[e].chat_id \in no_forward_chats'
              /\ handler'[e].target = handler[e].target
              /\ handler'[e].pc \in ReconstructionCalls
         /\ (Moved(e) /\ handler[e].pc \in PreparationCalls) =>
              /\ handler'[e].target = handler[e].target
              /\ handler'[e].pc \in ReconstructionCalls]_vars

\* the native forward to the first target has raised the restriction error
\* and the rebuilt message is being sent to that target
C6_Witness ==
    \E e \in Handlers :
        /\ handler[e].pc = "send_message"
        /\ handler[e].target = 1
        /\ handler[e].can_forward
        /\ ~handler[e].after_restriction
        /\ handler[e].chat_id \in restricted
        /\ handler[e].chat_id \in no_forward_chats

\* C7 as stated: once a native forward from a chat has raised a
\* forwarding-restriction error, no native forward from that chat is issued
\* again, neither for the remaining targets of the message, nor by a handler
\* in flight, nor for a later message.
C7_NoNativeForwardAfterRestriction ==
    [][\A e \in Handlers :
         IssuesNativeForward(e) => handler'[e].chat_id \notin restricted]_vars

\* C8: a handler entered after a forwarding-restriction error of its chat
\* computes a forwarding-allowed value of false, awaits no call of the native
\* path, and is in the reconstruction path (its preparation or its sends)
\* whenever it is in the loop over the targets.
C8_LaterMessageSkipsNative ==
    \A e \in Handlers :
        handler[e].after_restriction =>
            /\ ~handler[e].can_forward
            /\ handler[e].pc \notin NativeCalls
            /\ handler[e].target > 0
                 => handler[e].pc \in ReconstructionCalls \cup {"send_additional"}

\* the entity of the chat allows forwarding, a native forward from the chat
\* has raised the restriction error, and a message that arrived afterwards is
\* sent rebuilt to its second target
C8_Witness ==
    \E e \in Handlers :
        /\ handler[e].after_restriction
        /\ handler[e].pc = "send_message"
        /\ handler[e].target = 2
        /\ handler[e].chat_id \in DOMAIN chat_entities
        /\ chat_entities[handler[e].chat_id] = OpenChannel

\* C9: the loop over the decision starts with the first target, goes from a
\* target to the next one only, after a delivery call of that target has
\* returned or raised, and is left only after the last target; within a
\* target the native forward is issued at its start only and the main send
\* at most once.
C9_EveryTargetInOrder ==
    [][\A e \in Handlers :
         Moved(e) =>
           LET l == handler[e]
               m == handler'[e]
           IN  /\ (m.pc \in ForwardStage /\ l.pc \notin ForwardStage)
                    => m.target = 1
               /\ (m.pc \in ForwardStage /\ l.pc \in ForwardStage) =>
                    /\ m.forwarding_info = l.forwarding_info
                    /\ m.target \in {l.target, l.target + 1}
                    /\ m.target = l.target + 1 => l.pc \in DeliveryCalls
                    /\ m.target = l.target =>
                         /\ m.pc # "forward_messages"
                         /\ m.pc = "send_message"
                              => l.pc \in PreparationCalls \cup {"forward_messages"}
               /\ (m.pc = "idle" /\ l.pc \in ForwardStage)
                    => /\ l.target = Len(l.forwarding_info)
                       /\ l.pc \in DeliveryCalls]_vars

\* the main send to the first target has raised and the second target is
\* being served
C9_Witness ==
    \E e \in Handlers :
        /\ handler[e].target = 2
        /\ handler[e].last_failed
        /\ handler[e].pc \in ForwardStage

C10_OtherTypeWitness ==
    \E e \in Handlers :
        /\ handler[e].pc = "forward_messages"
        /\ handler[e].chat_id \in DOMAIN chat_entities
        /\ chat_entities[handler[e].chat_id] = RestrictedBasicGroup

(***************************************************************************)
(* Specification of topic resolution: handlers.py 97-102 on any message    *)
(* and any result of the forum lookup                                      *)
(***************************************************************************)

\* message.reply_to when set.  The header has neither of the two top-level
\* attributes or one of them (the two names stand for the same field in
\* different versions of the transport's types); reply_to_top_id and
\* reply_to_msg_id may be None; a header may have none of the attributes.
\* Optional: an attribute that an object may or may not have.
TopicMessages ==
    LET Optional(name, values) == {EmptyDict} \cup {(name :> v) : v \in values}
        ReplyHeaders ==
            {flag @@ top @@ target :
                flag \in Optional("forum_topic", BOOLEAN),
                top \in Optional("top_msg_id", {7})
                          \cup Optional("reply_to_top_id", {None, 8}),
                target \in Optional("reply_to_msg_id", {None, 9})}
    IN  {[id |-> 10, post |-> post, reply_to |-> reply_to] @@ field :
            post \in BOOLEAN,
            reply_to \in ReplyHeaders \cup {NoReply},
            field \in Optional("topic_id", {4}) \cup Optional("topic", {6})}

\* the forum lookup raises, or returns a forum, a chat whose forum flag is
\* False, or an entity without that attribute
InitTopic ==
    /\ rules = PipelineTable
    /\ call \in [chat_id : {ForumChat}, message : TopicMessages,
                 entity : {Fail, Supergroup, OpenChannel, [channel |-> FALSE]},
                 user_id : {None, 42},
                 done : {FALSE}, topic_id : {None}, result : {<<>>}]
    /\ InitCaches
    /\ handler = [e \in Handlers |-> Idle]
    /\ restricted = {}

\* handlers.py 97-102: extract_topic_id, then should_forward
ResolveTopicAndMatch ==
    /\ ~call.done
    /\ LET topic_id == extract_topic_id(call.message, call.entity) IN
       call' = [call EXCEPT
                  !.done = TRUE,
                  !.topic_id = topic_id,
                  !.result = should_forward(rules, call.chat_id, topic_id,
                                            call.user_id)]
    /\ UNCHANGED <<rules, caches, handler, restricted>>

SpecTopic == InitTopic /\ [][ResolveTopicAndMatch]_vars

(***************************************************************************)
(* Claims about extract_topic_id                                           *)
(***************************************************************************)

\* the forum lookup of the call succeeded and the chat is a forum
ForumCall == call.done /\ ~IsFail(call.entity) /\ Flag(call.entity, "forum")

HasTopicField(message) ==
    "topic_id" \in DOMAIN message \/ "topic" \in DOMAIN message

\* the top-level-message id the reply metadata carries, None if it has none
TopLevelId(message) ==
    IF ~HasReply(message) THEN None
    ELSE GetAttr(message.reply_to, "top_msg_id",
                 GetAttr(message.reply_to, "reply_to_top_id", None))

\* the reply target's message id the reply metadata carries, None if none
ReplyTargetId(message) ==
    IF ~HasReply(message) THEN None
    ELSE GetAttr(message.reply_to, "reply_to_msg_id", None)

\* the steps of the precedence chain, each yielding an id or None
ChainSteps(message) ==
    <<GetAttr(message, "topic_id", GetAttr(message, "topic", None)),
      IF HasReply(message) /\ Flag(message.reply_to, "forum_topic")
      THEN TopLevelId(message) ELSE None,
      TopLevelId(message),
      ReplyTargetId(message),
      IF message.post THEN message.id ELSE None,
      1>>

\* the id of the first step of the chain that yields one
FirstSuccess(message) ==
    LET steps == ChainSteps(message)
    IN  steps[Min({k \in 1..Len(steps) : steps[k] # None})]

\* C11 as stated: for a forum chat whose lookup succeeds the result is the
\* id of the first step of the chain that yields an id, steps that yield
\* none being passed over, and so never None.
C11_AsStated ==
    ForumCall =>
        /\ call.topic_id # None
        /\ call.topic_id = FirstSuccess(call.message)

\* C12 as stated: for a forum chat every message without topic field and
\* without reply metadata is resolved to topic 1.
C12_AsStated ==
    (ForumCall /\ ~HasTopicField(call.message) /\ ~HasReply(call.message))
        => call.topic_id = 1

\* C12 amended: for a forum chat a message without topic field and without
\* reply metadata is resolved to topic 1 unless it is a post, and a post is
\* resolved to its own message id.
C12_DefaultUnlessPost ==
    (ForumCall /\ ~HasTopicField(call.message) /\ ~HasReply(call.message))
        => call.topic_id = IF call.message.post THEN call.message.id ELSE 1

C12_Witness ==
    /\ ForumCall
    /\ ~HasTopicField(call.message) /\ ~HasReply(call.message)
    /\ ~call.message.post
    /\ call.topic_id = 1

C12_PostWitness ==
    /\ ForumCall
    /\ ~HasTopicField(call.message) /\ ~HasReply(call.message)
    /\ call.message.post
    /\ call.topic_id = 10

\* C13: for a forum chat and a message without topic field, reply metadata
\* that carries a top-level-message id resolves to that id, and the reply
\* target's message id is the result only when the metadata carries no
\* top-level-message id.
C13_TopLevelBeforeReplyTarget ==
    (ForumCall /\ ~HasTopicField(call.message) /\ HasReply(call.message)) =>
        IF TopLevelId(call.message) # None
        THEN call.topic_id = TopLevelId(call.message)
        ELSE call.topic_id = ReplyTargetId(call.message)

\* the metadata carries a top-level-message id and another reply target
C13_Witness ==
    /\ ForumCall
    /\ ~HasTopicField(call.message) /\ HasReply(call.message)
    /\ TopLevelId(call.message) = 8
    /\ ReplyTargetId(call.message) = 9
    /\ call.topic_id = 8

\* the metadata carries no top-level-message id
C13_ReplyTargetWitness ==
    /\ ForumCall
    /\ ~HasTopicField(call.message) /\ HasReply(call.message)
    /\ TopLevelId(call.message) = None
    /\ call.topic_id = 9

\* C14: for a chat that is not a forum the result is None whatever the
\* message carries, and the decision consists of the "*" targets of the
\* matched entry that pass the user filter.
C14_NotForumOnlyWildcard ==
    (call.done /\ ~IsFail(call.entity) /\ ~Flag(call.entity, "forum")) =>
        /\ call.topic_id = None
        /\ call.result = EntryDecision(ForumEntry, None, call.user_id)

\* a message with topic field, reply metadata and post flag in a chat that is
\* not a forum
C14_Witness ==
    /\ call.done
    /\ call.entity = OpenChannel
    /\ "topic_id" \in DOMAIN call.message
    /\ HasReply(call.message) /\ TopLevelId(call.message) = 8
    /\ call.message.post
    /\ call.topic_id = None
    /\ Len(call.result) = 1 /\ call.result[1].to_chat = "888"

\* C15: when the forum lookup raises, the result is None and rule matching
\* goes on with topic None.
C15_LookupFailureGivesNone ==
    (call.done /\ IsFail(call.entity)) =>
        /\ call.topic_id = None
        /\ call.result = should_forward(rules, call.chat_id, None, call.user_id)

C15_Witness ==
    /\ call.done
    /\ IsFail(call.entity)
    /\ ~HasTopicField(call.message) /\ ~HasReply(call.message)
    /\ call.topic_id = None
    /\ call.result # <<>>

(***************************************************************************)
(* Claims about the caches                                                 *)
(***************************************************************************)

\* the (chat, topic) pairs for which chat_topics holds a name
TopicKeys(top) == UNION {{<<c, t>> : t \in DOMAIN top[c]} : c \in DOMAIN top}

\* C16 as stated: a name held by chat_topics for a chat and a topic,
\* the "Topic {id}" fallback included, is the name held for them in every
\* later state.
C16_TopicNamesPermanent ==
    [][\A k \in TopicKeys(chat_topics) :
         /\ k \in TopicKeys(chat_topics')
         /\ chat_topics'[k[1]][k[2]] = chat_topics[k[1]][k[2]]]_vars

\* C17 as stated: an entity record held by chat_entities for a chat id is
\* the record held for it in every later state, also when the handlers of
\* two events have both asked the transport for it.
C17_EntityRecordsPermanent ==
    [][\A k \in DOMAIN chat_entities :
         /\ k \in DOMAIN chat_entities'
         /\ chat_entities'[k] = chat_entities[k]]_vars

\* C18: the key sets of chat_entities, chat_topics (chats, and topics of a
\* chat), no_forward_chats and resolved_message_links only grow: no step
\* removes a key.
C18_CacheKeysOnlyGrow ==
    [][/\ DOMAIN chat_entities \subseteq DOMAIN chat_entities'
       /\ DOMAIN chat_topics \subseteq DOMAIN chat_topics'
       /\ TopicKeys(chat_topics) \subseteq TopicKeys(chat_topics')
       /\ no_forward_chats \subseteq no_forward_chats'
       /\ DOMAIN resolved_message_links
            \subseteq DOMAIN resolved_message_links']_vars

\* every cache holds a key, the topic cache two topics of one chat
C18_Witness ==
    /\ DOMAIN chat_entities # {}
    /\ Cardinality(TopicKeys(chat_topics)) >= 2
    /\ no_forward_chats # {}
    /\ DOMAIN resolved_message_links # {}

\* the calls of the transport that get_entity awaits
ResolveCalls ==
    {"can_forward_get_entity", "title_get_entity", "topic_get_entity",
     "link_get_entity"}

\* the calls awaited inside fetch_linked_message before a message is found
FetchCalls ==
    {"link_get_entity", "link_get_messages", "link_get_messages_topic",
     "link_raw_request"}

\* the key of the get_entity call handler e awaits
ResolvedKey(e) ==
    IF handler[e].pc = "link_get_entity"
    THEN LinkEntityKey(CurrentLink(Machine(e)))
    ELSE handler[e].chat_id

\* the step is the failure of the get_entity call handler e awaits
FailedResolve(e) ==
    /\ handler[e].pc \in ResolveCalls
    /\ \/ CanForwardEntityReturnedWith(e, Fail)
       \/ TitleEntityReturnedWith(e, Fail)
       \/ TopicNameEntityReturnedWith(e, Fail)
       \/ LinkEntityReturnedWith(e, Fail)

\* the step ends fetch_linked_message of handler e without a message
FailedFetch(e) ==
    /\ handler[e].pc \in FetchCalls
    /\ Moved(e)
    /\ handler'[e].link # handler[e].link

\* C19 as stated: after a failed get_entity the chat id is in
\* no_forward_chats.
C19_AsStated ==
    [][\A e \in Handlers :
         FailedResolve(e) => ResolvedKey(e) \in no_forward_chats']_vars

\* C19 amended: a failed get_entity inside can_forward_from_chat adds the
\* chat id to no_forward_chats; a failed get_entity made for the chat title,
\* the topic name or a link leaves no_forward_chats as it is.
C19_OnlyCanForwardMarks ==
    [][\A e \in Handlers :
         FailedResolve(e) =>
             no_forward_chats' =
                 IF handler[e].pc = "can_forward_get_entity"
                 THEN no_forward_chats \cup {handler[e].chat_id}
                 ELSE no_forward_chats]_vars

\* the chat is in no_forward_chats because get_entity returned None inside
\* can_forward_from_chat, and the message is sent rebuilt
C19_Witness ==
    \E e \in Handlers :
        /\ handler[e].pc = "send_message"
        /\ ~handler[e].can_forward
        /\ handler[e].chat_id \in no_forward_chats \ restricted
        /\ handler[e].chat_id \notin DOMAIN chat_entities

\* C20 as stated: once an entity lookup or a linked-message lookup has
\* failed, the same lookup is answered from then on without the transport.
C20_AsStated ==
    [][\A e \in Handlers :
         /\ FailedResolve(e)
              => ~GetEntityAsksTransport(chat_entities', ResolvedKey(e))
         /\ FailedFetch(e)
              => CacheKey(CurrentLink(Machine(e)))
                   \in DOMAIN resolved_message_links']_vars

\* C20 amended: a failed lookup stores nothing.  A failed get_entity leaves
\* chat_entities as it is, and unless the id has been cached by another
\* lookup the next get_entity of the id asks the transport again; a
\* fetch_linked_message that ends without a message leaves
\* resolved_message_links as it is, without an entry for the link.
C20_FailuresNotCached ==
    [][\A e \in Handlers :
         /\ FailedResolve(e) =>
              /\ chat_entities' = chat_entities
              /\ ResolvedKey(e) \notin DOMAIN chat_entities
                   => GetEntityAsksTransport(chat_entities', ResolvedKey(e))
         /\ FailedFetch(e) =>
              /\ resolved_message_links' = resolved_message_links
              /\ CacheKey(CurrentLink(Machine(e)))
                   \notin DOMAIN resolved_message_links']_vars

\* get_entity of the chat has returned None inside can_forward_from_chat and
\* get_chat_title asks the transport for the same chat again
C20_Witness ==
    \E e \in Handlers :
        /\ handler[e].pc = "title_get_entity"
        /\ handler[e].chat_id \in no_forward_chats \ restricted
        /\ handler[e].chat_id \notin DOMAIN chat_entities
        /\ GetEntityAsksTransport(chat_entities, handler[e].chat_id)

(***************************************************************************)
(* Claims about fetch_linked_message and extract_message_links             *)
(***************************************************************************)

\* the transport returned a message object
IsObject(o) == ~IsFail(o) /\ ~IsNone(o)

\* the transport returned a message with non-empty text
HasText(o) == IsObject(o) /\ o.text # ""

\* the step of handler e ends fetch_linked_message with a message whose text
\* is that of o
ReturnsTextOf(e, o) ==
    /\ handler'[e].pc = "link_get_sender"
    /\ handler'[e].link = handler[e].link
    /\ handler'[e].linked # NoMessage
    /\ handler'[e].linked.text = o.text

\* C21: the strategies are tried in the order direct, topic-scoped, raw; the
\* topic-scoped fetch only for a record with a topic id; a later strategy
\* only when every earlier one of the same record yielded no text; the text
\* returned is that of the first strategy that yielded text.
C21_StrategyOrder ==
    [][\A e \in Handlers :
         /\ (Moved(e) /\ handler'[e].pc = "link_get_messages")
              => \/ handler[e].pc \notin FetchCalls
                 \/ handler[e].pc = "link_get_entity"
                 \/ handler'[e].link # handler[e].link
         /\ (Moved(e) /\ handler'[e].pc = "link_get_messages_topic")
              => /\ handler[e].pc = "link_get_messages"
                 /\ handler'[e].link = handler[e].link
                 /\ "topic_id" \in DOMAIN CurrentLink(Machine(e))
                 /\ \A o \in MessageOutcomes :
                        LinkDirectFetchedWith(e, o) => ~HasText(o)
         /\ (Moved(e) /\ handler'[e].pc = "link_raw_request")
              => /\ handler'[e].link = handler[e].link
                 /\ \/ /\ handler[e].pc = "link_get_messages"
                       /\ \A o \in MessageOutcomes :
                              LinkDirectFetchedWith(e, o) => ~HasText(o)
                    \/ /\ handler[e].pc = "link_get_messages_topic"
                       /\ \A o \in MessageOutcomes :
                              LinkTopicFetchedWith(e, o) => ~HasText(o)
         /\ \A o \in MessageOutcomes :
              /\ (HasText(o) /\ LinkDirectFetchedWith(e, o)) => ReturnsTextOf(e, o)
              /\ (HasText(o) /\ LinkTopicFetchedWith(e, o)) => ReturnsTextOf(e, o)
         /\ \A o \in RawMessageOutcomes :
              (HasText(o) /\ LinkRawFetchedWith(e, o)) => ReturnsTextOf(e, o)]_vars

\* the direct and the topic-scoped fetch of a record with topic id yielded
\* no text and the raw fetch did: the message of the direct fetch is
\* returned with the raw text
C21_Witness ==
    \E e \in Handlers :
        /\ handler[e].pc = "link_get_sender"
        /\ "topic_id" \in DOMAIN CurrentLink(Machine(e))
        /\ handler[e].linked = [text |-> "raw", media |-> "photo"]

\* the topic-scoped fetch is skipped for a record without topic id
C21_NoTopicWitness ==
    \E e \in Handlers :
        /\ handler[e].pc = "link_raw_request"
        /\ "topic_id" \notin DOMAIN CurrentLink(Machine(e))

\* C22 as stated: fetch_linked_message returns None only if no strategy
\* obtained a message object; in particular it does not return None when the
\* raw fetch, the last strategy, has just obtained one.
C22_AsStated ==
    [][\A e \in Handlers : \A o \in RawMessageOutcomes :
         (IsObject(o) /\ LinkRawFetchedWith(e, o)) => ~FailedFetch(e)]_vars

\* the entries of the link cache for the chat reference and message id of a
\* record
CachedFor(link_data, links) ==
    {k \in DOMAIN links :
        k[1] = LinkRef(link_data) /\ k[2] = link_data.message_id}

\* the step of handler e calls fetch_linked_message for the next link
BeginsFetch(e) == handler'[e].link \notin {0, handler[e].link}

\* the record of the call handler e is in after the step
NextLink(e) == handler'[e].message.links[handler'[e].link]

\* C23: a message returned by fetch_linked_message is stored under the chat
\* reference and message id of its record, and a call for a record with that
\* chat reference and message id, whatever its topic id, returns the stored
\* message without a call of the transport and without a change of the
\* caches.
C23_CachedLinkServedLocally ==
    [][\A e \in Handlers :
         /\ (handler[e].pc \in FetchCalls /\ handler'[e].pc = "link_get_sender")
              => /\ CachedFor(NextLink(e), resolved_message_links') # {}
                 /\ \A k \in CachedFor(NextLink(e), resolved_message_links') :
                        resolved_message_links'[k] = handler'[e].linked
         /\ (BeginsFetch(e)
               /\ CachedFor(NextLink(e), resolved_message_links) # {})
              => /\ handler'[e].pc = "link_get_sender"
                 /\ \A k \in CachedFor(NextLink(e), resolved_message_links) :
                        handler'[e].linked = resolved_message_links[k]
                 /\ resolved_message_links' = resolved_message_links
                 /\ chat_entities' = chat_entities]_vars

\* the first link of a message gave a block, and the second link, to the
\* same chat and message with a topic id, is served from the cache
C23_Witness ==
    \E e \in Handlers :
        /\ handler[e].pc = "link_get_sender"
        /\ handler[e].link = 2
        /\ Len(handler[e].additional_content) = 1
        /\ "topic_id" \in DOMAIN CurrentLink(Machine(e))
        /\ "topic_id" \notin DOMAIN handler[e].message.links[1]
        /\ CachedFor(CurrentLink(Machine(e)), resolved_message_links) # {}

\* the index of the link handler e is at: 0 before the link loop, past the
\* last link once forward_message has been entered
LinkIndexAfter(e) ==
    IF handler'[e].pc \in ForwardStage
    THEN Len(handler[e].message.links) + 1
    ELSE handler'[e].link

\* in one step handler e begins and ends fetch_linked_message for its k-th
\* link: no call of the transport is awaited and no block is added
PassesInOneStep(e, k) ==
    /\ handler[e].message # NoMessage
    /\ k \in 1..Len(handler[e].message.links)
    /\ Moved(e)
    /\ handler[e].link < k
    /\ LinkIndexAfter(e) > k

\* C24 as stated: the chat of a username-form record is resolved by its
\* username through get_entity, so the fetch of such a record does not end
\* before the transport has been asked for the username.
C24_AsStated ==
    [][\A e \in Handlers :
       \A k \in DOMAIN GetAttr(handler[e].message, "links", <<>>) :
         PassesInOneStep(e, k)
             => "username" \notin DOMAIN handler[e].message.links[k]]_vars

(***************************************************************************)
(* utils.TG_LINK_PATTERN and link_manager.LinkManager.extract_message_links *)
(*                                                                         *)
(* A text is a sequence of characters.  The pattern is                     *)
(*   https?://t\.me/(?:c/(\d+)|([^/]+))/(\d+)(?:/(\d+))?                   *)
(* Its repetitions are greedy, and no shorter repetition can match where   *)
(* the longest fails: each is followed by a character outside its class,   *)
(* or by an optional group.                                                *)
(***************************************************************************)

\* the text has the literal at position p
MatchLit(text, p, lit) ==
    /\ p + Len(lit) - 1 <= Len(text)
    /\ SubSeq(text, p, p + Len(lit) - 1) = lit

\* \d+ and [^/]+ at position p: the position of the last character matched,
\* p - 1 if none is
RECURSIVE DigitsEnd(_, _)
DigitsEnd(text, p) ==
    IF p <= Len(text) /\ IsDigitChar(text[p]) THEN DigitsEnd(text, p + 1)
    ELSE p - 1

RECURSIVE NonSlashEnd(_, _)
NonSlashEnd(text, p) ==
    IF p <= Len(text) /\ text[p] # "/" THEN NonSlashEnd(text, p + 1)
    ELSE p - 1

\* int(s) of a text of digits
RECURSIVE ParseNat(_)
ParseNat(s) ==
    IF s = <<>> THEN 0
    ELSE 10 * ParseNat(SubSeq(s, 1, Len(s) - 1))
           + (CHOOSE d \in 0..9 : Digit[d + 1] = s[Len(s)])

NoMatch == [ok |-> FALSE]

\* /(\d+)(?:/(\d+))? at position p, after the chat part whose groups are given
MatchIds(text, p, groups) ==
    IF ~MatchLit(text, p, <<"/">>) THEN NoMatch
    ELSE LET m == DigitsEnd(text, p + 1) IN
         IF m < p + 1 THEN NoMatch
         ELSE LET with_id == groups @@ [msg_id |-> SubSeq(text, p + 1, m)]
                  t == DigitsEnd(text, m + 2)
              IN  IF MatchLit(text, m + 1, <<"/">>) /\ t >= m + 2
                  THEN [ok |-> TRUE, last |-> t,
                        groups |-> with_id @@ [topic_id |-> SubSeq(text, m + 2, t)]]
                  ELSE [ok |-> TRUE, last |-> m, groups |-> with_id]

\* c/(\d+) and what follows, at position p
MatchNumericChat(text, p) ==
    IF ~MatchLit(text, p, <<"c", "/">>) THEN NoMatch
    ELSE LET d == DigitsEnd(text, p + 2) IN
         IF d < p + 2 THEN NoMatch
         ELSE MatchIds(text, d + 1, [channel_id |-> SubSeq(text, p + 2, d)])

\* ([^/]+) and what follows, at position p
MatchUsername(text, p) ==
    LET n == NonSlashEnd(text, p) IN
    IF n < p THEN NoMatch
    ELSE MatchIds(text, n + 1, [username |-> SubSeq(text, p, n)])

\* variant: the username alternative is tried first
MatchChatUsernameFirst(text, p) ==
    IF MatchUsername(text, p).ok THEN MatchUsername(text, p)
    ELSE MatchNumericChat(text, p)

\* (?:c/(\d+)|([^/]+)) and what follows: the first alternative that lets the
\* rest of the pattern match
MatchChat(text, p) ==
    IF MatchNumericChat(text, p).ok THEN MatchNumericChat(text, p)
    ELSE MatchUsername(text, p)

SchemeSecure == <<"h", "t", "t", "p", "s", ":", "/", "/">>
SchemePlain == <<"h", "t", "t", "p", ":", "/", "/">>
Host == <<"t", ".", "m", "e", "/">>

\* the pattern at position p
MatchAt(text, p) ==
    IF MatchLit(text, p, SchemeSecure \o Host)
    THEN MatchChat(text, p + Len(SchemeSecure \o Host))
    ELSE IF MatchLit(text, p, SchemePlain \o Host)
         THEN MatchChat(text, p + Len(SchemePlain \o Host))
         ELSE NoMatch

\* link_manager.py 50-68: the record of a match that begins at position p
LinkData(text, p, m) ==
    [full_match |-> SubSeq(text, p, m.last),
     message_id |-> ParseNat(m.groups.msg_id)]
      @@ (IF "channel_id" \in DOMAIN m.groups
          THEN [chat_id |-> m.groups.channel_id]
          ELSE [username |-> m.groups.username])
      @@ (IF "topic_id" \in DOMAIN m.groups
          THEN [topic_id |-> ParseNat(m.groups.topic_id)]
          ELSE EmptyDict)

\* finditer from position p on: the matches from left to right, none
\* overlapping another
RECURSIVE FindLinks(_, _)
FindLinks(text, p) ==
    IF p > Len(text) THEN <<>>
    ELSE LET m == MatchAt(text, p) IN
         IF m.ok THEN <<LinkData(text, p, m)>> \o FindLinks(text, m.last + 1)
         ELSE FindLinks(text, p + 1)

\* link_manager.py 45-73
extract_message_links(message_text) ==
    IF message_text = <<>> THEN <<>> ELSE FindLinks(message_text, 1)

(***************************************************************************)
(* Specification of link extraction: texts made of links and of the words  *)
(* between them                                                            *)
(***************************************************************************)

\* bound: number of links in a text
MaxLinks == 2

\* what a link is written from: the chat part, the message id, the topic
\* segment (empty if there is none)
\* a username "c" followed by two numbers is written like a numeric link,
\* so the username "c" is written without a topic segment
WrittenLinks ==
    LET NumericChats == {IntStr(555)}
        Usernames == {<<"a", "l", "i", "c", "e">>, <<"c">>}
        MessageIdTexts == {IntStr(10), <<"0">> \o IntStr(20)}
        TopicTexts == {<<>>, IntStr(3), IntStr(0)}
    IN
    {l \in [kind : {"numeric"}, ref : NumericChats, scheme : {SchemeSecure},
            id : MessageIdTexts, topic : TopicTexts]
           \cup [kind : {"username"}, ref : Usernames,
                 scheme : {SchemeSecure, SchemePlain},
                 id : {IntStr(20)}, topic : TopicTexts] :
        /\ (l.topic = IntStr(0) => l.kind = "numeric")
        /\ (l.id # IntStr(10) /\ l.kind = "numeric" => l.topic = <<>>)
        /\ (l.ref # <<"a", "l", "i", "c", "e">> /\ l.kind = "username"
              => l.topic = <<>> /\ l.scheme = SchemeSecure)
        /\ (l.scheme = SchemePlain => l.topic = <<>>)}

\* the text of a written link
Written(l) ==
    l.scheme \o Host \o (IF l.kind = "numeric" THEN <<"c", "/">> ELSE <<>>)
      \o l.ref \o <<"/">> \o l.id
      \o (IF l.topic = <<>> THEN <<>> ELSE <<"/">> \o l.topic)

\* words and links in turn: word, link, word, link, ..., word
RECURSIVE Compose(_, _)
Compose(links, words) ==
    IF links = <<>> THEN Head(words)
    ELSE Head(words) \o Written(Head(links)) \o Compose(Tail(links), Tail(words))

\* the words before, between and after the links: none begins with a digit
\* or continues a link
WrittenTexts ==
    LET Words ==
            {<<>>, <<"s", "e", "e", " ">>, <<" ", "a", "n", "d", " ">>, <<"/">>}
    IN  UNION {[links : [1..n -> WrittenLinks], words : [1..(n + 1) -> Words]] :
                 n \in 0..MaxLinks}

InitLinks ==
    /\ rules = PipelineTable
    /\ call \in {[written |-> w, text |-> Compose(w.links, w.words),
                  done |-> FALSE, result |-> <<>>] : w \in WrittenTexts}
    /\ InitCaches
    /\ handler = [e \in Handlers |-> Idle]
    /\ restricted = {}

\* handlers.py 141-143
CallExtractMessageLinks ==
    /\ ~call.done
    /\ call' = [call EXCEPT !.done = TRUE,
                            !.result = extract_message_links(call.text)]
    /\ UNCHANGED <<rules, caches, handler, restricted>>

SpecLinks == InitLinks /\ [][CallExtractMessageLinks]_vars

\* the record the claim gives for a written link
RecordOf(l) ==
    [full_match |-> Written(l), message_id |-> ParseNat(l.id)]
      @@ (IF l.kind = "numeric" THEN [chat_id |-> l.ref]
          ELSE [username |-> l.ref])
      @@ (IF l.topic = <<>> THEN EmptyDict
          ELSE [topic_id |-> ParseNat(l.topic)])

ExtractionCall == "written" \in DOMAIN call /\ call.done

\* C25: extract_message_links returns one record per link of the text, from
\* left to right: a numeric chat reference for the form c/<digits>/<id>, a
\* username for the form <name>/<id>, the message id as an integer, and a
\* topic id if and only if a further numeric segment follows.
C25_OneRecordPerLink ==
    ExtractionCall =>
        call.result = [i \in 1..Len(call.written.links) |->
                          RecordOf(call.written.links[i])]

\* a text with a numeric link without topic and then a username link with
\* topic, as in "see https://t.me/c/555/10 and https://t.me/alice/20/3"
C25_Witness ==
    /\ ExtractionCall
    /\ Len(call.result) = 2
    /\ call.result[1] =
         [full_match |-> SchemeSecure \o Host \o <<"c", "/">> \o IntStr(555)
                           \o <<"/">> \o IntStr(10),
          message_id |-> 10, chat_id |-> IntStr(555)]
    /\ call.result[2] =
         [full_match |-> SchemeSecure \o Host \o <<"a", "l", "i", "c", "e", "/">>
                           \o IntStr(20) \o <<"/">> \o IntStr(3),
          message_id |-> 20, username |-> <<"a", "l", "i", "c", "e">>,
          topic_id |-> 3]
    /\ call.written.words[1] = <<"s", "e", "e", " ">>
    /\ call.written.words[2] = <<" ", "a", "n", "d", " ">>
    /\ call.written.words[3] = <<>>

(***************************************************************************)
(* Claims about get_topic_name                                             *)
(***************************************************************************)

\* the calls of the transport that get_topic_name awaits
TopicNameCalls ==
    {"topic_get_entity", "topic_full_channel", "topic_get_messages",
     "topic_discussion"}

\* the step of handler e ends get_topic_name for a non-zero topic id
ReturnsTopicName(e) ==
    /\ Moved(e)
    /\ handler[e].pc # "send_message"
    /\ handler'[e].pc = "send_message"
    /\ Truthy(handler'[e].topic_id)

\* the listing holds a title for the topic; the message holds a title
ListsTopic(o, topic_id) == IsObject(o) /\ topic_id \in DOMAIN o.topics
HasTitle(o) == IsObject(o)

C26_FallbackWitness ==
    \E e \in Handlers :
        /\ handler[e].pc = "send_message"
        /\ Truthy(handler[e].topic_id)
        /\ handler[e].topic_name = FallbackName(handler[e].topic_id)
        /\ handler[e].chat_id \in DOMAIN chat_entities
        /\ chat_topics[handler[e].chat_id][handler[e].topic_id]
             = handler[e].topic_name

(***************************************************************************)
(* Claims about the deliveries to one target                               *)
(***************************************************************************)

\* the step of handler e ends the loop body of its target
LeavesTarget(e) ==
    \/ handler'[e].pc = "idle"
    \/ /\ handler'[e].pc \in ForwardStage
       /\ handler'[e].target = handler[e].target + 1

\* the step of handler e stays with its target and awaits the call pc
StaysAt(e, pc) ==
    handler'[e].pc = pc /\ handler'[e].target = handler[e].target

\* C27: after a successful native forward the target is finished: the
\* follow-up edit, whether it succeeds or raises, is followed by the next
\* target and never by the reconstruction for the same target; and after a
\* main send of the reconstruction no native forward or second main send
\* goes to the same target.
C27_OnePrimaryDelivery ==
    [][\A e \in Handlers :
         /\ \A o \in {"ok", "ok_none"} :
              ForwardReturnedWith(e, o)
                  => StaysAt(e, "edit_message") \/ LeavesTarget(e)
         /\ (handler[e].pc = "edit_message" /\ Moved(e)) => LeavesTarget(e)
         /\ (handler[e].pc \in {"send_message", "send_additional"} /\ Moved(e))
              => StaysAt(e, "send_additional") \/ LeavesTarget(e)
         /\ (Moved(e) /\ handler'[e].pc = "forward_messages") => StartsTarget(e)
         /\ handler'[e].edit_failed => handler'[e].target >= 2]_vars

\* the native forward to the first target succeeded, its edit raised, and the
\* handler is at the second target
C27_Witness ==
    \E e \in Handlers :
        /\ handler[e].edit_failed
        /\ handler[e].target = 2
        /\ handler[e].pc \in ForwardStage
        /\ Truthy(handler[e].forwarding_info[1].to_topic)

\* the number of enrichment blocks whose media is present and is no link
\* preview
FollowUps(additional_content) ==
    Cardinality({i \in 1..Len(additional_content) :
                    additional_content[i].media \notin {"none", "webpage"}})

\* C28: in the reconstruction for one target the follow-ups begin only after
\* the main send has succeeded; there is one follow-up for each enrichment
\* block with media that is no link preview; the next follow-up is sent
\* whether the previous one succeeded or raised; after a failed main send the
\* loop goes on with the next target without a follow-up.
C28_FollowUpsAfterMainSend ==
    [][\A e \in Handlers :
         LET n == FollowUps(handler[e].additional_content) IN
         /\ SendReturnedWith(e, "error") => LeavesTarget(e)
         /\ SendReturnedWith(e, "ok") =>
              IF n > 0
              THEN StaysAt(e, "send_additional") /\ handler'[e].media_item = 1
              ELSE LeavesTarget(e)
         /\ (Moved(e) /\ handler'[e].pc = "send_additional"
               /\ handler[e].pc # "send_additional")
              => handler[e].pc = "send_message"
         /\ (Moved(e) /\ handler[e].pc = "send_additional") =>
              IF handler[e].media_item < n
              THEN /\ StaysAt(e, "send_additional")
                   /\ handler'[e].media_item = handler[e].media_item + 1
              ELSE LeavesTarget(e)]_vars

\* the second follow-up of a target is being sent, whatever became of the
\* first
C28_Witness ==
    \E e \in Handlers :
        /\ handler[e].pc = "send_additional"
        /\ handler[e].media_item = 2
        /\ FollowUps(handler[e].additional_content) = 2

\* a block whose media is a link preview gets no follow-up
C28_PreviewWitness ==
    \E e \in Handlers :
        /\ handler[e].pc = "send_message"
        /\ handler[e].additional_content # <<>>
        /\ \A i \in 1..Len(handler[e].additional_content) :
               handler[e].additional_content[i].media = "webpage"

(***************************************************************************)
(* Claims about handle_new_message as a whole                              *)
(***************************************************************************)

\* the step of handler e is the return of handle_new_message
Returns(e) == handler[e].pc # "idle" /\ handler'[e].pc = "idle"

\* the step of handler e is the evaluation of the rules with an empty
\* decision
DecidesEmpty(e) ==
    \E o \in EntityOutcomes(handler[e].chat_id) :
        /\ TopicEntityReturnedWith(e, o)
        /\ should_forward(rules, handler[e].chat_id,
                          extract_topic_id(handler[e].message, o),
                          handler[e].sender_id) = <<>>

\* C29: handle_new_message is left only where its code returns: when no rule
\* matched, or when the loop body of the last target has ended.  Whatever
\* the transport raises in between, the handler goes on to its next call.
C29_FailuresAbsorbed ==
    [][\A e \in Handlers :
         Returns(e) =>
             \/ handler[e].pc = "client_get_entity" /\ DecidesEmpty(e)
             \/ /\ handler[e].pc \in ForwardStage
                /\ handler[e].target = Len(handler[e].forwarding_info)]_vars

\* the lookups of the chat have failed, the main send to the first target has
\* raised, and the handler is at the main send to the second target
C29_Witness ==
    \E e \in Handlers :
        /\ handler[e].pc = "send_message"
        /\ handler[e].target = 2
        /\ handler[e].last_failed
        /\ handler[e].topic_name = FallbackName(handler[e].topic_id)
        /\ handler[e].chat_id \notin DOMAIN chat_entities

\* C30: when the decision is empty the handler returns at once: no call of
\* can_forward_from_chat, no reply or link fetch, no forward, edit or send;
\* and from the arrival of the event to that return the four caches are
\* left as they were.
C30_EmptyDecisionIsNoOp ==
    [][\A e \in Handlers :
         /\ DecidesEmpty(e) => /\ handler'[e].pc = "idle"
                               /\ handler'[e].no_rule
                               /\ UNCHANGED caches
         /\ (Moved(e) /\ handler[e].pc = "idle")
              => /\ handler'[e].pc \in {"idle", "get_sender"}
                 /\ UNCHANGED caches
         /\ (Moved(e) /\ handler[e].pc = "get_sender")
              => /\ handler'[e].pc = "client_get_entity"
                 /\ UNCHANGED caches
         /\ handler'[e].no_rule => handler'[e].pc = "idle"]_vars

\* an event of a chat with cached entities and names has been dropped
C30_Witness ==
    \E e \in Handlers :
        /\ handler[e].pc = "idle"
        /\ handler[e].no_rule
        /\ DOMAIN chat_entities # {}
        /\ DOMAIN chat_topics # {}
        /\ no_forward_chats # {}

(***************************************************************************)
(* Startup: core.py 124-129 runs setup_interactive on the loaded table and *)
(* registers the handlers after it.  `call` holds the program's phase.     *)
(***************************************************************************)

\* rules.py 108-109 without the guard
SetupAppliesAlways(table) == TRUE

\* rules.py 108-109: `if self.rules: return False`
SetupApplies(table) == DOMAIN table = {}

\* rules.py 98-164: the table after the setup and whether the setup raised
\* (int() of a user id that is no number, rules.py 138)
setup_interactive(table, answers) ==
    LET rule == [chat_id |-> answers.dest_chat, topic_id |-> None]
                  @@ (IF answers.use_user_filter /\ answers.user_ids # <<>>
                      THEN [user_ids |-> answers.user_ids]
                      ELSE EmptyDict)
        entry == (Star :> <<rule>>)
        source == answers.source_chat
    IN  IF \/ ~SetupApplies(table)
           \/ answers.start # "y"
           \/ source = <<>>
           \/ answers.dest_chat = ""
        THEN [table |-> table, raised |-> FALSE]
        ELSE IF answers.use_user_filter /\ answers.invalid_user_id
             THEN [table |-> table, raised |-> TRUE]
             ELSE [table |-> [k \in DOMAIN table \cup {source} |->
                                 IF k = source THEN entry ELSE table[k]],
                   raised |-> FALSE]

\* core.py 124-125: the answers typed at the prompts; an exception of the
\* setup ends the program
SetupInteractive ==
    /\ call = [phase |-> "startup"]
    /\ \E answers \in [start : {"y", "n"}, source_chat : {<<>>, IntStr(77)},
                       dest_chat : {"", "999"}, use_user_filter : BOOLEAN,
                       user_ids : {<<>>, <<42>>}, invalid_user_id : BOOLEAN] :
          LET r == setup_interactive(rules, answers) IN
          /\ rules' = r.table
          /\ call' = [phase |-> IF r.raised THEN "stopped" ELSE "running"]
    /\ UNCHANGED <<caches, handler, restricted>>

\* core.py 44: the table is loaded from the rules file, empty if there is none
InitStartup ==
    /\ rules \in {EmptyDict, PipelineTable}
    /\ call = [phase |-> "startup"]
    /\ InitCaches
    /\ handler = [e \in Handlers |-> Idle]
    /\ restricted = {}

NextStartup ==
    \/ SetupInteractive
    \/ \E e \in Handlers :
          \/ call = [phase |-> "running"] /\ Receive(e)
          \/ SenderReturned(e)
          \/ TopicEntityReturned(e)
          \/ CanForwardEntityReturned(e)
          \/ ReplyFetched(e)
          \/ ReplySenderReturned(e)
          \/ LinkEntityReturned(e)
          \/ LinkDirectFetched(e)
          \/ LinkTopicFetched(e)
          \/ LinkRawFetched(e)
          \/ LinkSenderReturned(e)
          \/ ForwardReturned(e)
          \/ EditReturned(e)
          \/ TitleEntityReturned(e)
          \/ TopicNameEntityReturned(e)
          \/ TopicListingReturned(e)
          \/ TopicStarterReturned(e)
          \/ TopicDiscussionReturned(e)
          \/ SendReturned(e)
          \/ AdditionalSent(e)

SpecStartup == InitStartup /\ [][NextStartup]_vars

(***************************************************************************)
(* Claims about the rule table                                             *)
(***************************************************************************)

\* C31: once the handlers are registered no step changes the rule table,
\* whatever the messages and the outcomes of their calls; the table changes
\* only in the startup setup, only if it was empty, and then by one entry.
C31_RuleTableFixedWhileHandling ==
    [][/\ (call # [phase |-> "startup"] => rules' = rules)
       /\ (rules' # rules
             => /\ rules = EmptyDict
                /\ Cardinality(DOMAIN rules') = 1)]_vars

\* a message is being delivered under a table that the setup created
C31_Witness ==
    /\ call = [phase |-> "running"]
    /\ rules \notin {EmptyDict, PipelineTable}
    /\ \E e \in Handlers : handler[e].pc \in DeliveryCalls

(***************************************************************************)
(* Specification of stalled events: the handlers of SpecOverlap, where the *)
(* awaited calls of the last handler return or raise; a call of any other  *)
(* handler may never return                                                *)
(***************************************************************************)

\* Weak fairness of the returns of the calls of the last handler.  The
\* return of the awaited call is enabled exactly while the handler is inside
\* a call, and it is the only step that changes the record of such a
\* handler, so WF_vars of it is: infinitely often the handler is idle or its
\* record changes.
SpecStall ==
    /\ Init
    /\ [][NextOverlap]_vars
    /\ \/ []<>(handler[MaxInFlight].pc = "idle")
       \/ []<><<handler'[MaxInFlight] # handler[MaxInFlight]>>_vars

(***************************************************************************)
(* Claims about events that are handled at the same time                   *)
(***************************************************************************)

WithoutLeadingMinus(s) ==
    CHOOSE t \in {SubSeq(s, i, Len(s)) : i \in 1..(Len(s) + 1)} :
        /\ t = <<>> \/ t[1] # "-"
        /\ \A j \in 1..(Len(s) - Len(t)) : s[j] = "-"

\* the identifier of the observed call, as text
InboundText == PyStr(call.chat_id)

\* C33: for a text that starts with "-100" the candidates are the text, the
\* text without that prefix, and "-" before the text without the prefix;
\* for any other text they are the text and "-100" before the text without
\* its leading minus signs; in this order and no others.
C33_CandidatesOfNormalization ==
    LET s == InboundText
        r == normalize_chat_id(call.chat_id)
    IN  IF Len(s) >= 4 /\ \A i \in 1..4 : s[i] = Prefix100[i]
        THEN /\ Len(r) = 3
             /\ r[1] = s
             /\ Prefix100 \o r[2] = s
             /\ r[3] = <<"-">> \o r[2]
        ELSE r = <<s, Prefix100 \o WithoutLeadingMinus(s)>>

\* a call with an identifier that has two leading minus signs
C33_Witness ==
    /\ call.done
    /\ Len(InboundText) > 2
    /\ InboundText[1] = "-" /\ InboundText[2] = "-"

\* a call with an identifier of the "-100" form, given as an int
C33_PrefixWitness ==
    /\ call.done
    /\ "int" \in DOMAIN call.chat_id
    /\ StartsWith(InboundText, Prefix100)

\* C34: every candidate of an identifier is among its own candidates when
\* it is normalized again, and the first candidate has the candidates of
\* the identifier itself (the candidates are a function of the identifier's
\* text, so equal identifiers have equal candidates).
C34_NormalizationStable ==
    LET r == normalize_chat_id(call.chat_id) IN
    /\ \A i \in DOMAIN r :
          \E j \in DOMAIN normalize_chat_id(StrId(r[i])) :
              normalize_chat_id(StrId(r[i]))[j] = r[i]
    /\ normalize_chat_id(StrId(r[1])) = r
    /\ normalize_chat_id(StrId(InboundText)) = r

\* an identifier without the prefix, given as an int, whose second candidate
\* is of the "-100" form and has three candidates of its own
C34_Witness ==
    LET r == normalize_chat_id(call.chat_id) IN
    /\ call.done
    /\ "int" \in DOMAIN call.chat_id
    /\ Len(r) = 2
    /\ Len(normalize_chat_id(StrId(r[2]))) = 3

\* C35: a call whose identifier has no candidate among the keys of the rule
\* table returns the empty decision, whatever the topic and the sender; so
\* does every call on an empty table.
C35_NoEntryNoDecision ==
    call.done /\ PresentCandidates = {} => call.result = <<>>

\* a call on a table that has entries, none for the identifier
C35_Witness ==
    /\ call.done
    /\ DOMAIN rules # {}
    /\ PresentCandidates = {}
    /\ call.topic_id # None /\ call.user_id # None

\* a call on the empty table
C35_EmptyTableWitness == call.done /\ DOMAIN rules = {}

(***************************************************************************)
(* processors.MessageProcessor.format_message_for_forwarding.  A text is   *)
(* the sequence of its characters.                                         *)
(***************************************************************************)

\* processors.py 46-47 without the `hasattr(sender, 'id')` branch
sender_name_without_id(o) ==
    LET first_name == GetAttr(o, "first_name", <<>>)
        last_name == GetAttr(o, "last_name", <<>>)
        username == GetAttr(o, "username", <<>>)
        named == first_name
                   \o (IF last_name # <<>> THEN <<" ">> \o last_name ELSE <<>>)
                   \o (IF username # <<>>
                       THEN <<" ", "(", "@">> \o username \o <<")">>
                       ELSE <<>>)
    IN  IF IsFail(o) \/ named = <<>>
        THEN <<"U", "n", "k", "n", "o", "w", "n", " ", "U", "s", "e", "r">>
        ELSE named

\* processors.py 42-54: sender_name for the result o of message.get_sender();
\* an attribute that is absent, None or "" is the empty text
sender_name(o) ==
    LET first_name == GetAttr(o, "first_name", <<>>)
        last_name == GetAttr(o, "last_name", <<>>)
        username == GetAttr(o, "username", <<>>)
        named == first_name
                   \o (IF last_name # <<>> THEN <<" ">> \o last_name ELSE <<>>)
                   \o (IF username # <<>>
                       THEN <<" ", "(", "@">> \o username \o <<")">>
                       ELSE <<>>)
    IN  IF IsFail(o) THEN <<"U", "n", "k", "n", "o", "w", "n", " ", "U", "s", "e", "r">>
        ELSE IF named # <<>> THEN named
        ELSE IF "id" \in DOMAIN o THEN <<"U", "s", "e", "r", " ">> \o IntStr(o.id)
        ELSE <<"U", "n", "k", "n", "o", "w", "n", " ", "U", "s", "e", "r">>

\* processors.py 57-63: the prefix; "U+2934" and "U+1F517" stand for the
\* arrow and the link sign, "\n" for the line feed
BlockPrefix(is_reply, linked_from) ==
    IF is_reply
    THEN <<"U+2934", " ">>
           \o <<"*", "*", "I", "n", " ", "r", "e", "p", "l", "y", " ", "t", "o",
                ":", "*", "*">>
           \o <<"\n">>
    ELSE IF linked_from # <<>>
         THEN <<"U+1F517", " ">>
                \o <<"*", "*", "L", "i", "n", "k", "e", "d", " ", "m", "e", "s",
                     "s", "a", "g", "e", ":", "*", "*", " ">>
                \o linked_from \o <<"\n">>
         ELSE <<>>

\* processors.py 66-100: the text of the message, or what stands for it
BlockBody(message) ==
    IF message.text # <<>> THEN message.text
    ELSE IF message.media # <<>>
         THEN <<"[", "M", "e", "s", "s", "a", "g", "e", " ", "w", "i", "t", "h",
                " ">> \o message.media \o <<"]">>
         ELSE <<"[", "E", "m", "p", "t", "y", " ", "m", "e", "s", "s", "a", "g", "e", "]">>

\* processors.py 103
format_message_for_forwarding(message, o, is_reply, linked_from) ==
    BlockPrefix(is_reply, linked_from)
      \o <<"*", "*">> \o sender_name(o) \o <<":", "*", "*", " ">>
      \o BlockBody(message)

(***************************************************************************)
(* Specification of the formatter: any sender, any kind of block           *)
(***************************************************************************)

\* the observed call: the message, the result of get_sender, the kind
InitFormat ==
    LET Attr(name, values) == {EmptyDict} \cup {(name :> v) : v \in values}
        Senders ==
            {a @@ b @@ c @@ d :
                a \in Attr("first_name", {<<>>, <<"A", "m", "y">>}),
                b \in Attr("last_name", {<<>>, <<"L", "e", "e">>}),
                c \in Attr("username", {<<"a", "m", "y">>}),
                d \in Attr("id", {42})}
    IN
    /\ rules = PipelineTable
    /\ call \in [message : [text : {<<>>, <<"h", "i">>},
                            media : {<<>>, <<"P", "h", "o", "t", "o">>}],
                 sender : Senders \cup {Fail, NoneResult},
                 is_reply : BOOLEAN,
                 linked_from : {<<>>, <<"t", ".", "m", "e", "/", "a", "/", "1">>},
                 done : {FALSE}, result : {<<>>}]
    /\ InitCaches
    /\ handler = [e \in Handlers |-> Idle]
    /\ restricted = {}

\* processors.py 30-111
FormatBlock ==
    /\ ~call.done
    /\ call' = [call EXCEPT
                  !.done = TRUE,
                  !.result = format_message_for_forwarding(
                                 call.message, call.sender, call.is_reply,
                                 call.linked_from)]
    /\ UNCHANGED <<rules, caches, handler, restricted>>

SpecFormat == InitFormat /\ [][FormatBlock]_vars

(***************************************************************************)
(* Claims about the enrichment blocks                                      *)
(***************************************************************************)

\* the name fields of the observed sender, empty if absent
FieldOf(name) == GetAttr(call.sender, name, <<>>)

\* the sender display as the claim gives it
SenderDisplay ==
    LET named == FieldOf("first_name")
                   \o (IF FieldOf("last_name") # <<>>
                       THEN <<" ">> \o FieldOf("last_name") ELSE <<>>)
                   \o (IF FieldOf("username") # <<>>
                       THEN <<" ", "(", "@">> \o FieldOf("username") \o <<")">>
                       ELSE <<>>)
    IN  IF named # <<>> /\ ~IsFail(call.sender) THEN named
        ELSE IF "id" \in DOMAIN call.sender
             THEN <<"U", "s", "e", "r", " ">> \o IntStr(call.sender.id)
             ELSE <<"U", "n", "k", "n", "o", "w", "n", " ", "U", "s", "e", "r">>

\* a block that is neither a reply block nor a link block
PlainBlock == call.done /\ ~call.is_reply /\ call.linked_from = <<>>

OnlyFirstNameAmy == call.sender = [first_name |-> <<"A", "m", "y">>]
NoFields == call.sender \in {EmptyDict, NoneResult}

\* C36 as stated: the text of a block is the prefix, the sender display,
\* ": " and the body, so that Amy gives "Amy: {body}" and a sender without
\* fields "Unknown User: {body}".
C36_AsStated ==
    /\ call.done
         => call.result
              = BlockPrefix(call.is_reply, call.linked_from)
                  \o SenderDisplay \o <<":", " ">> \o BlockBody(call.message)
    /\ PlainBlock /\ OnlyFirstNameAmy
         => call.result = <<"A", "m", "y">> \o <<":", " ">> \o BlockBody(call.message)
    /\ PlainBlock /\ NoFields
         => call.result = <<"U", "n", "k", "n", "o", "w", "n", " ", "U", "s", "e", "r">> \o <<":", " ">> \o BlockBody(call.message)

\* C36, amended: the sender display is as stated, and the text of a block is
\* the prefix, "**", the sender display, ":** " and the body, so that Amy
\* gives "**Amy:** {body}" and a sender without fields, or a sender lookup
\* that fails, "**Unknown User:** {body}".
C36_SenderDisplayInBold ==
    /\ call.done
         => call.result
              = BlockPrefix(call.is_reply, call.linked_from)
                  \o <<"*", "*">> \o SenderDisplay \o <<":", "*", "*", " ">>
                  \o BlockBody(call.message)
    /\ PlainBlock /\ OnlyFirstNameAmy
         => call.result
              = <<"*", "*">> \o <<"A", "m", "y">> \o <<":", "*", "*", " ">>
                  \o BlockBody(call.message)
    /\ PlainBlock /\ (NoFields \/ IsFail(call.sender))
         => call.result
              = <<"*", "*">> \o <<"U", "n", "k", "n", "o", "w", "n", " ", "U", "s", "e", "r">> \o <<":", "*", "*", " ">>
                  \o BlockBody(call.message)
    /\ call.done /\ call.sender = [id |-> 42]
         => SenderDisplay = <<"U", "s", "e", "r", " ", "4", "2">>
    /\ call.done /\ call.sender = [first_name |-> <<"A", "m", "y">>, last_name |-> <<"L", "e", "e">>,
                                  username |-> <<"a", "m", "y">>, id |-> 42]
         => SenderDisplay = <<"A", "m", "y", " ", "L", "e", "e", " ", "(", "@", "a", "m", "y", ")">>

\* the block of a sender with only the first name Amy
C36_Witness == PlainBlock /\ OnlyFirstNameAmy

\* the block of a sender without fields
C36_NoFieldsWitness == PlainBlock /\ NoFields

(***************************************************************************)
(* Claims about a native forward that fails without a restriction error    *)
(***************************************************************************)

\* C37: a native forward that raises an error that is no
\* forwarding-restriction error leaves no_forward_chats unchanged, and the
\* handler goes on with the same target in the reconstruction path; a
\* message of the same chat that arrives afterwards computes a
\* forwarding-allowed value of true unless a restriction error of the chat
\* has been seen.
C37_OtherFailureNotRemembered ==
    /\ [][\A e \in Handlers :
            ForwardReturnedWith(e, "error") =>
                /\ no_forward_chats' = no_forward_chats
                /\ handler'[e].target = handler[e].target
                /\ handler'[e].chat_id = handler[e].chat_id
                /\ handler'[e].pc \in ReconstructionCalls]_vars
    /\ [](\A e \in Handlers :
            (/\ handler[e].after_failure
             /\ handler[e].target > 0
             /\ handler[e].chat_id \notin restricted)
               => /\ handler[e].can_forward
                  /\ handler[e].chat_id \notin no_forward_chats)

\* a message that arrived after such a failure of its chat is being forwarded
\* natively to its first target
C37_Witness ==
    \E e \in Handlers :
        /\ handler[e].after_failure
        /\ handler[e].pc = "forward_messages"
        /\ handler[e].target = 1
        /\ handler[e].chat_id \notin no_forward_chats

\* the native forward to the second target has raised such an error and the
\* rebuilt message is being sent to that target
C37_FallbackWitness ==
    \E e \in Handlers :
        /\ handler[e].failed_chat = handler[e].chat_id
        /\ handler[e].pc = "send_message"
        /\ handler[e].target = 2
        /\ handler[e].can_forward
        /\ handler[e].chat_id \notin no_forward_chats

(***************************************************************************)
(* Claims about a sender that cannot be read                               *)
(***************************************************************************)

\* the targets of the entry matched for the chat of handler e, in the scopes
\* should_forward looks at for the topic id the step has computed
TargetsInScope(e) ==
    LET matching == FindMatching(rules, normalize_chat_id(handler[e].chat_id))
        topic_id == handler'[e].topic_id
        scopes == {Star} \cup (IF topic_id # None THEN {IntStr(topic_id)} ELSE {})
    IN  IF matching = <<>> THEN {}
        ELSE UNION {Range(matching[1][s]) : s \in scopes \cap DOMAIN matching[1]}

\* C38: when get_sender raises or returns None the handler goes on with
\* sender_id = None; and the decision taken for a handler whose sender_id is
\* None holds every target of the matched entry's scopes, those with a
\* non-empty user_ids among them, so that the handler goes on to deliver.
C38_MissingSenderFailsOpen ==
    [][\A e \in Handlers :
         /\ (SenderReturnedWith(e, Fail) \/ SenderReturnedWith(e, NoneResult))
              => /\ handler'[e].sender_id = None
                 /\ handler'[e].pc = "client_get_entity"
         /\ (/\ handler[e].pc = "client_get_entity"
             /\ handler[e].sender_id = None
             /\ Moved(e)
             /\ TargetsInScope(e) # {})
              => /\ handler'[e].pc # "idle"
                 /\ \A t \in TargetsInScope(e) :
                       AsDecision(t) \in Range(handler'[e].forwarding_info)]_vars

\* the sender of a message of the forum chat could not be read; the message
\* is in topic 1, the decision holds the target whose user_ids is [42] and
\* the target of the topic, and the handler has gone on to
\* can_forward_from_chat
C38_Witness ==
    \E e \in Handlers :
        /\ handler[e].chat_id = ForumChat
        /\ handler[e].pc = "can_forward_get_entity"
        /\ handler[e].sender_id = None
        /\ handler[e].topic_id = 1
        /\ handler[e].forwarding_info = <<AsDecision(T888), AsDecision(T999)>>

(***************************************************************************)
(* Specification of the link cache: the pipeline for messages of the forum *)
(* chat whose text holds one link, one event at a time                     *)
(***************************************************************************)

\* handlers.py 52-59, link_manager.py 49-70: the text of the message holds
\* "https://t.me/c/555/10", which gives a record with chat_id '555', or
\* "https://t.me/555/10", which gives a record with username '555'
ReceiveLinked(e) ==
    LET numeric == [full_match |-> "https://t.me/c/555/10",
                    chat_id |-> IntStr(555), message_id |-> 10]
        digits == [full_match |-> "https://t.me/555/10",
                   username |-> IntStr(555), message_id |-> 10]
    IN  /\ \A f \in Handlers : handler[f].pc = "idle"
        /\ \E link_data \in {numeric, digits} :
              handler' = [f \in Handlers |->
                            IF f = e
                            THEN Entered(Machine(e), ForumChat,
                                         [MsgPlain EXCEPT !.links = <<link_data>>]).l
                            ELSE Idle]
        /\ UNCHANGED <<rules, call, caches, restricted>>

SpecLinkCache ==
    /\ Init
    /\ [][\E e \in Handlers :
               \/ ReceiveLinked(e)
               \/ SenderReturned(e)
               \/ TopicEntityReturned(e)
               \/ CanForwardEntityReturned(e)
               \/ LinkEntityReturned(e)
               \/ LinkDirectFetched(e)
               \/ LinkRawFetched(e)
               \/ LinkSenderReturned(e)
               \/ ForwardReturned(e)
               \/ EditReturned(e)
               \/ TitleEntityReturned(e)
               \/ TopicNameEntityReturned(e)
               \/ TopicListingReturned(e)
               \/ TopicStarterReturned(e)
               \/ TopicDiscussionReturned(e)
               \/ SendReturned(e)
               \/ AdditionalSent(e)]_vars

(***************************************************************************)
(* Claims about the key of the link cache                                  *)
(***************************************************************************)

\* the step of handler e begins a call of fetch_linked_message that is
\* answered from resolved_message_links
ServedFromCache(e) ==
    /\ BeginsFetch(e)
    /\ CacheKey(NextLink(e)) \in DOMAIN resolved_message_links

\* C39 as stated: a call of fetch_linked_message is answered from the cache
\* only for a record that designates the chat and message of the record that
\* filled the entry.  An entry is filled only after get_entity has returned
\* the chat of the record, and with one event at a time that chat stays in
\* chat_entities; so the chat of a record answered from the cache has been
\* resolved.
C39_AsStated ==
    [][\A e \in Handlers :
         ServedFromCache(e)
           => LinkEntityKey(NextLink(e)) \in DOMAIN chat_entities']_vars

(***************************************************************************)
(* Claims about the two uses of the reply target                           *)
(***************************************************************************)

\* extract_topic_id has taken topic_id from the reply target's message id:
\* the message has no topic field, its reply metadata carries no top-level
\* id, so that every branch of lines 146-166 leaves topic_id = None, and
\* the chat is a forum
TopicTakenFromReplyTarget(message, topic_id) ==
    /\ message # NoMessage
    /\ HasReply(message)
    /\ ~HasTopicField(message)
    /\ GetAttr(message.reply_to, "top_msg_id", None) = None
    /\ GetAttr(message.reply_to, "reply_to_top_id", None) = None
    /\ ReplyTargetId(message) # None
    /\ topic_id = ReplyTargetId(message)

TopicIsReplyTarget(e) ==
    TopicTakenFromReplyTarget(handler[e].message, handler[e].topic_id)

\* the step of handler e enters process_and_forward_message
EntersProcessing(e) ==
    /\ Moved(e)
    /\ handler[e].pc \in {"client_get_entity", "can_forward_get_entity"}
    /\ handler'[e].pc \notin {"idle", "can_forward_get_entity"}

\* C40 as stated: whenever extract_topic_id took the topic id from the reply
\* target's message id, is_genuine_reply is false for the message, and the
\* handler awaits neither the fetch of the reply target nor the get_sender of
\* its block.
C40_AsStated ==
    \A e \in Handlers :
        TopicIsReplyTarget(e) =>
            /\ ~is_genuine_reply(handler[e].message, handler[e].topic_id)
            /\ handler[e].pc \notin {"reply_get_messages", "reply_get_sender"}

\* C40, amended: when extract_topic_id took the topic id from the reply
\* target's message id and the reply metadata carries a set forum_topic
\* flag, the message is no genuine reply: no reply block is fetched, and a
\* message without links goes to its first target without a block.  When
\* the flag is not set the message is a genuine reply all the same, and the
\* fetch of the reply target is the first call of the processing.
C40_OneUseOnlyWithFlag ==
    [][\A e \in Handlers :
         (/\ EntersProcessing(e)
          /\ TopicTakenFromReplyTarget(handler[e].message, handler'[e].topic_id))
            => IF Flag(handler[e].message.reply_to, "forum_topic")
               THEN /\ handler'[e].pc \notin {"reply_get_messages", "reply_get_sender"}
                    /\ handler[e].message.links = <<>>
                         => /\ handler'[e].target = 1
                            /\ handler'[e].additional_content = <<>>
               ELSE handler'[e].pc = "reply_get_messages"]_vars

\* the topic id of a reply without the flag is its reply target's message
\* id, so that the targets of topic 1 are not in the decision; the reply
\* target has been fetched, and the handler awaits the get_sender of its
\* block
C40_Witness ==
    \E e \in Handlers :
        /\ TopicIsReplyTarget(e)
        /\ ~Flag(handler[e].message.reply_to, "forum_topic")
        /\ handler[e].pc = "reply_get_sender"
        /\ handler[e].linked # NoMessage
        /\ AsDecision(T999) \notin Range(handler[e].forwarding_info)

\* the topic id of a reply with the flag is its reply target's message id
\* and the handler is in can_forward_from_chat
C40_FlaggedWitness ==
    \E e \in Handlers :
        /\ TopicIsReplyTarget(e)
        /\ Flag(handler[e].message.reply_to, "forum_topic")
        /\ handler[e].pc = "can_forward_get_entity"

============================================================================
